---- MODULE Spec2Model ----
(***************************************************************************)
(* State-machine model of the server-controlled reasoning loop of          *)
(* app/(preview)/api/chat/route.ts (POST / createDataStreamResponse        *)
(* execute callback) together with lib/dharma.ts (mean,                    *)
(* generateDharmaFeedback, generateSimpleFeedback) and lib/schema.ts       *)
(* (dharmaSchema), which this snapshot keeps in app/(preview)/layout.tsx.  *)
(*                                                                         *)
(* Numbers.  Sub-scores are JavaScript numbers.  The model measures them   *)
(* in units of 1/40: One = 40 is 1.0, and every sub-score the services     *)
(* return here is a whole number of tenths (a multiple of 4 units), so     *)
(* that (a+b+c+d)/4 is a whole number of units and the model's integer     *)
(* division is the exact quotient.  For the inputs enumerated below the    *)
(* IEEE-754 sums are exact as well (3.6/4, 0.4/4, 3/4, 2/4).               *)
(*                                                                         *)
(* Text.  A string is a TLA+ string; templates are \o concatenations.  The *)
(* raw text of the feedback service is a sequence of chunks so that        *)
(* String.prototype.trim has something to do.                              *)
(***************************************************************************)
EXTENDS Integers, Sequences, FiniteSets, TLC

VARIABLES
    DHARMA_TARGET,      \* route.ts:11  resolved configuration (units of 1/40)
    DHARMA_MAX_STEPS,   \* route.ts:12  resolved configuration
    scoreHistory,       \* route.ts:36
    iterationState,     \* route.ts:39-43
    shouldContinue,     \* route.ts:46
    pc,                 \* position of the execute callback
    contextMessages,    \* route.ts:53  context of the step request in flight
    pending,            \* locals alive across the feedback await
    calls,              \* external calls issued so far, in order
    dataStream,         \* dataStream.writeData events, in order
    telemetry,          \* console.log records of route.ts:192-211
    errors,             \* console.error records
    peer                \* route.ts:33-46  the request-scoped state of a second
                        \* request, whose callback waits while this one runs

vars == <<DHARMA_TARGET, DHARMA_MAX_STEPS, scoreHistory, iterationState,
          shouldContinue, pc, contextMessages, pending, calls, dataStream,
          telemetry, errors, peer>>

----------------------------------------------------------------------------
(* Bounds of the model *)

\* largest configured DHARMA_MAX_STEPS explored by Spec
MaxMaxSteps == 5

\* 1.0 in score units
One == 4 * 10

MINIMUM_STEPS == 4

DefaultTarget == (3 * One) \div 4

DefaultMaxSteps == 10

\* Tenths(7) is the number 0.7
Tenths(n) == 4 * n

----------------------------------------------------------------------------
(* lib/dharma.ts *)

\* the last dimension left out of the average
mean_ThreeTerms(scores) ==
    (scores.mindfulness + scores.emptiness + scores.nonDuality) \div 3

mean(scores) ==
    (scores.mindfulness + scores.emptiness + scores.nonDuality
        + scores.boundlessCare) \div 4

\* Array.prototype.join(" ")
RECURSIVE JoinSpace(_)
JoinSpace(parts) ==
    IF Len(parts) = 0 THEN ""
    ELSE IF Len(parts) = 1 THEN parts[1]
    ELSE parts[1] \o " " \o JoinSpace(Tail(parts))

\* a sentence also for a dimension exactly at target
generateSimpleFeedback_AtOrBelow(scores, target) ==
    LET s1 == IF scores.mindfulness <= target
              THEN <<"Strengthen mindfulness: explicitly note assumptions and limitations.">>
              ELSE <<>>
        s2 == IF scores.emptiness <= target
              THEN <<"Strengthen emptiness: hold conclusions more lightly, acknowledge uncertainty.">>
              ELSE <<>>
        s3 == IF scores.nonDuality <= target
              THEN <<"Strengthen non-duality: consider complementary perspectives and interconnections.">>
              ELSE <<>>
        s4 == IF scores.boundlessCare <= target
              THEN <<"Strengthen boundless care: expand consideration of all stakeholders and potential harms.">>
              ELSE <<>>
        suggestions == s1 \o s2 \o s3 \o s4
    IN  IF Len(suggestions) = 0
        THEN "Strong alignment across all principles. Maintain this contemplative depth."
        ELSE JoinSpace(suggestions)

\* the suggestions joined even when there are none
generateSimpleFeedback_NoAllAligned(scores, target) ==
    LET s1 == IF scores.mindfulness < target
              THEN <<"Strengthen mindfulness: explicitly note assumptions and limitations.">>
              ELSE <<>>
        s2 == IF scores.emptiness < target
              THEN <<"Strengthen emptiness: hold conclusions more lightly, acknowledge uncertainty.">>
              ELSE <<>>
        s3 == IF scores.nonDuality < target
              THEN <<"Strengthen non-duality: consider complementary perspectives and interconnections.">>
              ELSE <<>>
        s4 == IF scores.boundlessCare < target
              THEN <<"Strengthen boundless care: expand consideration of all stakeholders and potential harms.">>
              ELSE <<>>
    IN  JoinSpace(s1 \o s2 \o s3 \o s4)

\* the scores held against 0.5 whatever the target is
generateSimpleFeedback_HalfThreshold(scores, target) ==
    LET s1 == IF scores.mindfulness < Tenths(5)
              THEN <<"Strengthen mindfulness: explicitly note assumptions and limitations.">>
              ELSE <<>>
        s2 == IF scores.emptiness < Tenths(5)
              THEN <<"Strengthen emptiness: hold conclusions more lightly, acknowledge uncertainty.">>
              ELSE <<>>
        s3 == IF scores.nonDuality < Tenths(5)
              THEN <<"Strengthen non-duality: consider complementary perspectives and interconnections.">>
              ELSE <<>>
        s4 == IF scores.boundlessCare < Tenths(5)
              THEN <<"Strengthen boundless care: expand consideration of all stakeholders and potential harms.">>
              ELSE <<>>
        suggestions == s1 \o s2 \o s3 \o s4
    IN  IF Len(suggestions) = 0
        THEN "Strong alignment across all principles. Maintain this contemplative depth."
        ELSE JoinSpace(suggestions)

generateSimpleFeedback(scores, target) ==
    LET s1 == IF scores.mindfulness < target
              THEN <<"Strengthen mindfulness: explicitly note assumptions and limitations.">>
              ELSE <<>>
        s2 == IF scores.emptiness < target
              THEN <<"Strengthen emptiness: hold conclusions more lightly, acknowledge uncertainty.">>
              ELSE <<>>
        s3 == IF scores.nonDuality < target
              THEN <<"Strengthen non-duality: consider complementary perspectives and interconnections.">>
              ELSE <<>>
        s4 == IF scores.boundlessCare < target
              THEN <<"Strengthen boundless care: expand consideration of all stakeholders and potential harms.">>
              ELSE <<>>
        suggestions == s1 \o s2 \o s3 \o s4
    IN  IF Len(suggestions) = 0
        THEN "Strong alignment across all principles. Maintain this contemplative depth."
        ELSE JoinSpace(suggestions)

IsWhitespace(chunk) == chunk \in {" ", "\n", "\t"}

\* String.prototype.trim on a chunked text, then the chunks glued together
RECURSIVE DropLeading(_)
DropLeading(t) ==
    IF Len(t) > 0 /\ IsWhitespace(t[1]) THEN DropLeading(Tail(t)) ELSE t

RECURSIVE DropTrailing(_)
DropTrailing(t) ==
    IF Len(t) > 0 /\ IsWhitespace(t[Len(t)])
    THEN DropTrailing(SubSeq(t, 1, Len(t) - 1)) ELSE t

RECURSIVE Glue(_)
Glue(t) == IF Len(t) = 0 THEN "" ELSE t[1] \o Glue(Tail(t))

trim(t) == Glue(DropTrailing(DropLeading(t)))

----------------------------------------------------------------------------
(* lib/schema.ts and the step parsing of route.ts *)

StepFields == {"title", "content", "dharma"}
DharmaFields == {"mindfulness", "emptiness", "nonDuality", "boundlessCare", "rationale"}

\* z.number().min(0).max(1)
InUnitRange(v) == 0 <= v /\ v <= One

dharmaSchemaOk(d) ==
    /\ d.fields = DharmaFields
    /\ InUnitRange(d.mindfulness)
    /\ InUnitRange(d.emptiness)
    /\ InUnitRange(d.nonDuality)
    /\ InUnitRange(d.boundlessCare)

\* singleStepSchema.parse succeeds
singleStepSchemaOk(stepData) ==
    /\ stepData.fields = StepFields
    /\ dharmaSchemaOk(stepData.dharma)

\* the raw text dropped from the fallback
FallbackStepData_NoContent(stepIndex, text) ==
    [fields |-> StepFields,
     title |-> "Reasoning Step " \o ToString(stepIndex),
     content |-> "",
     dharma |-> [fields |-> DharmaFields,
                 mindfulness |-> Tenths(5), emptiness |-> Tenths(5),
                 nonDuality |-> Tenths(5), boundlessCare |-> Tenths(5),
                 rationale |-> "Auto-generated (parsing failed)"]]

\* the stepData of the inner catch (route.ts:125-135)
FallbackStepData(stepIndex, text) ==
    [fields |-> StepFields,
     title |-> "Reasoning Step " \o ToString(stepIndex),
     content |-> text,
     dharma |-> [fields |-> DharmaFields,
                 mindfulness |-> Tenths(5), emptiness |-> Tenths(5),
                 nonDuality |-> Tenths(5), boundlessCare |-> Tenths(5),
                 rationale |-> "Auto-generated (parsing failed)"]]

\* route.ts:114-136: regex match, JSON.parse, fallback on either failure
ParseStepData(result, stepIndex) ==
    IF result.jsonMatch /\ result.jsonParses
    THEN result.json
    ELSE FallbackStepData(stepIndex, result.text)

----------------------------------------------------------------------------
(* Termination logic, route.ts:173-189 *)

\* the floor tested before the ceiling
TerminationDecision_FloorFirst(stepIndex, modelDharmaScore) ==
    IF stepIndex < MINIMUM_STEPS
    THEN [shouldContinue |-> TRUE, terminationReason |-> "minimum_steps_required"]
    ELSE IF stepIndex >= DHARMA_MAX_STEPS
    THEN [shouldContinue |-> FALSE, terminationReason |-> "max_steps_reached"]
    ELSE IF modelDharmaScore >= DHARMA_TARGET
    THEN [shouldContinue |-> FALSE, terminationReason |-> "target_reached"]
    ELSE [shouldContinue |-> TRUE, terminationReason |-> "continuing"]

\* the target compared with > instead of >=
TerminationDecision_StrictTarget(stepIndex, modelDharmaScore) ==
    IF stepIndex >= DHARMA_MAX_STEPS
    THEN [shouldContinue |-> FALSE, terminationReason |-> "max_steps_reached"]
    ELSE IF stepIndex < MINIMUM_STEPS
    THEN [shouldContinue |-> TRUE, terminationReason |-> "minimum_steps_required"]
    ELSE IF modelDharmaScore > DHARMA_TARGET
    THEN [shouldContinue |-> FALSE, terminationReason |-> "target_reached"]
    ELSE [shouldContinue |-> TRUE, terminationReason |-> "continuing"]

\* the floor forgotten
TerminationDecision_NoFloor(stepIndex, modelDharmaScore) ==
    IF stepIndex >= DHARMA_MAX_STEPS
    THEN [shouldContinue |-> FALSE, terminationReason |-> "max_steps_reached"]
    ELSE IF modelDharmaScore >= DHARMA_TARGET
    THEN [shouldContinue |-> FALSE, terminationReason |-> "target_reached"]
    ELSE [shouldContinue |-> TRUE, terminationReason |-> "continuing"]

\* the target comparison turned around
TerminationDecision_FlippedTarget(stepIndex, modelDharmaScore) ==
    IF stepIndex >= DHARMA_MAX_STEPS
    THEN [shouldContinue |-> FALSE, terminationReason |-> "max_steps_reached"]
    ELSE IF stepIndex < MINIMUM_STEPS
    THEN [shouldContinue |-> TRUE, terminationReason |-> "minimum_steps_required"]
    ELSE IF modelDharmaScore <= DHARMA_TARGET
    THEN [shouldContinue |-> FALSE, terminationReason |-> "target_reached"]
    ELSE [shouldContinue |-> TRUE, terminationReason |-> "continuing"]

TerminationDecision(stepIndex, modelDharmaScore) ==
    IF stepIndex >= DHARMA_MAX_STEPS
    THEN [shouldContinue |-> FALSE, terminationReason |-> "max_steps_reached"]
    ELSE IF stepIndex < MINIMUM_STEPS
    THEN [shouldContinue |-> TRUE, terminationReason |-> "minimum_steps_required"]
    ELSE IF modelDharmaScore >= DHARMA_TARGET
    THEN [shouldContinue |-> FALSE, terminationReason |-> "target_reached"]
    ELSE [shouldContinue |-> TRUE, terminationReason |-> "continuing"]

\* the guard without its ceiling
LoopGuard_NoCeiling == shouldContinue

\* the while guard, route.ts:48
LoopGuard == shouldContinue /\ iterationState.stepIndex < DHARMA_MAX_STEPS

\* Number.prototype.toFixed(digits) of a non-negative number v (score units)
RECURSIVE Pow10(_)
Pow10(n) == IF n = 0 THEN 1 ELSE 10 * Pow10(n - 1)

RECURSIVE ZeroPad(_, _)
ZeroPad(str, width) == IF Len(str) >= width THEN str ELSE ZeroPad("0" \o str, width)

toFixed(v, digits) ==
    LET scaled == (2 * v * Pow10(digits) + One) \div (2 * One)
    IN  ToString(scaled \div Pow10(digits)) \o "."
            \o ZeroPad(ToString(scaled % Pow10(digits)), digits)

----------------------------------------------------------------------------
(* The inbound request and the behaviours of the external services *)

\* the conversation of the request body (route.ts:23)
messages == <<[role |-> "user", content |-> "What should we do?"]>>

Dharma(m, e, n, b) ==
    [fields |-> DharmaFields, mindfulness |-> m, emptiness |-> e,
     nonDuality |-> n, boundlessCare |-> b, rationale |-> "self-evaluation"]

\* a generateText result whose text holds a parsable JSON object
JsonResult(text, fields, title, dharma) ==
    [text |-> text, jsonMatch |-> TRUE, jsonParses |-> TRUE,
     json |-> [fields |-> fields, title |-> title,
               content |-> "reasoning of " \o title, dharma |-> dharma]]

HighResult ==
    JsonResult("{high}", StepFields, "Strong step",
               Dharma(Tenths(9), Tenths(9), Tenths(9), Tenths(9)))

LowResult ==
    JsonResult("{low}", StepFields, "Weak step",
               Dharma(Tenths(1), Tenths(1), Tenths(1), Tenths(1)))

\* a sub-score of 1.5
OutOfRangeResult ==
    JsonResult("{out of range}", StepFields, "Overrated step",
               Dharma(Tenths(15), Tenths(9), Tenths(9), Tenths(9)))

\* a JSON object without the dharma field
MissingFieldResult ==
    JsonResult("{no dharma}", {"title", "content"}, "Unscored step",
               Dharma(0, 0, 0, 0))

\* plain prose: the regex finds no {...}
PlainTextResult ==
    [text |-> "Let me think about this.", jsonMatch |-> FALSE, jsonParses |-> FALSE,
     json |-> [fields |-> {}, title |-> "", content |-> "", dharma |-> Dharma(0, 0, 0, 0)]]

\* braces around something JSON.parse rejects
BrokenJsonResult ==
    [text |-> "{title: unquoted}", jsonMatch |-> TRUE, jsonParses |-> FALSE,
     json |-> [fields |-> {}, title |-> "", content |-> "", dharma |-> Dharma(0, 0, 0, 0)]]

\* what the step service may answer in Spec
StepResults ==
    {HighResult, LowResult, PlainTextResult, OutOfRangeResult, MissingFieldResult}

\* what the step service may answer in SpecParse
ParseResults ==
    {HighResult, PlainTextResult, BrokenJsonResult, OutOfRangeResult, MissingFieldResult}

\* what the step service may answer in SpecFeedback and SpecDefault
FewResults == {HighResult, PlainTextResult, OutOfRangeResult}

\* a well-formed step with the given sub-scores
ScoreResult(m, e, n, b) ==
    JsonResult("{scored}", StepFields, "Scored step", Dharma(m, e, n, b))

\* every pattern of 0.5 and 0.9 over the four dimensions, the two extremes,
\* and the degraded step (0.5 throughout, another rationale): SpecFallback
FallbackResults ==
    {ScoreResult(m, e, n, b) : m \in {Tenths(5), Tenths(9)}, e \in {Tenths(5), Tenths(9)},
                               n \in {Tenths(5), Tenths(9)}, b \in {Tenths(5), Tenths(9)}}
        \cup {ScoreResult(0, 0, 0, 0), ScoreResult(One, One, One, One), PlainTextResult}

\* steps of unequal sub-scores, with means 0.75, 0.7, 0 and 1: SpecScores
ScoredResults ==
    {ScoreResult(One, Tenths(5), One, Tenths(5)),
     ScoreResult(0, One, One, Tenths(8)),
     ScoreResult(0, 0, 0, 0),
     ScoreResult(One, One, One, One)}

\* raw texts of the feedback service, in chunks
FeedbackTexts == { <<" ", "Hold conclusions more provisionally.", "\n">> }

\* with an answer that is white space only
FeedbackTextsWithBlank == FeedbackTexts \cup { <<" ", "\n">> }

SynthesisTexts == {"Final answer."}

\* 0, 0.5, 0.75 and 1.1
TargetChoices == {0, Tenths(5), DefaultTarget, One + Tenths(1)}

MaxStepsChoices == (-1) .. MaxMaxSteps

----------------------------------------------------------------------------
(* The execute callback of createDataStreamResponse, route.ts:33-295 *)

TypeOK ==
    /\ DHARMA_TARGET \in Int
    /\ DHARMA_MAX_STEPS \in Int
    /\ shouldContinue \in BOOLEAN
    /\ pc \in {"loop", "genStep", "feedback", "synthesis", "done"}
    /\ iterationState.stepIndex \in Nat
    /\ Len(pending) <= 1

\* route.ts:33-46: the state a request starts with
NewSession ==
    [scoreHistory |-> <<>>,
     iterationState |-> [stepIndex |-> 0, allSteps |-> <<>>, previousFeedback |-> ""],
     shouldContinue |-> TRUE,
     pc |-> "loop",
     contextMessages |-> <<>>,
     pending |-> <<>>,
     calls |-> <<>>,
     dataStream |-> <<>>,
     telemetry |-> <<>>,
     errors |-> <<>>]

InitState ==
    /\ peer = NewSession
    /\ scoreHistory = <<>>
    /\ iterationState = [stepIndex |-> 0, allSteps |-> <<>>, previousFeedback |-> ""]
    /\ shouldContinue = TRUE
    /\ pc = "loop"
    /\ contextMessages = <<>>
    /\ pending = <<>>
    /\ calls = <<>>
    /\ dataStream = <<>>
    /\ telemetry = <<>>
    /\ errors = <<>>

Init ==
    /\ DHARMA_TARGET \in TargetChoices
    /\ DHARMA_MAX_STEPS \in MaxStepsChoices
    /\ InitState

\* the call is not awaited: it is still outstanding when the callback runs on
Settle_Unawaited(status, result) == calls

\* an awaited call settles: the last call issued is the one outstanding
Settle(status, result) ==
    [calls EXCEPT ![Len(calls)] =
        [kind |-> @.kind, stepIndex |-> @.stepIndex, request |-> @.request,
         status |-> status, result |-> result]]

Issue(kind, stepIndex, request) ==
    Append(calls, [kind |-> kind, stepIndex |-> stepIndex, request |-> request,
                   status |-> "pending"])

\* the note pushed after the instruction
BuildContext_NoteLast(stepIndex, previousFeedback) ==
    LET note == IF stepIndex > 1 /\ previousFeedback # ""
                THEN <<[role |-> "assistant",
                        content |-> "[Server Feedback from Step "
                                    \o ToString(stepIndex - 1) \o "]: "
                                    \o previousFeedback]>>
                ELSE <<>>
        prompt == [role |-> "user",
                   content |-> "Generate reasoning step " \o ToString(stepIndex)
                               \o " of " \o ToString(DHARMA_MAX_STEPS) \o ". "
                               \o (IF previousFeedback # ""
                                   THEN "Incorporate the server feedback from your previous step."
                                   ELSE "")]
    IN  messages \o <<prompt>> \o note

\* route.ts:52-71
BuildContext(stepIndex, previousFeedback) ==
    LET note == IF stepIndex > 1 /\ previousFeedback # ""
                THEN <<[role |-> "assistant",
                        content |-> "[Server Feedback from Step "
                                    \o ToString(stepIndex - 1) \o "]: "
                                    \o previousFeedback]>>
                ELSE <<>>
        prompt == [role |-> "user",
                   content |-> "Generate reasoning step " \o ToString(stepIndex)
                               \o " of " \o ToString(DHARMA_MAX_STEPS) \o ". "
                               \o (IF previousFeedback # ""
                                   THEN "Incorporate the server feedback from your previous step."
                                   ELSE "")]
    IN  messages \o note \o <<prompt>>

\* route.ts:48-111: the guard holds, the step request is issued
LoopEnter ==
    /\ pc = "loop"
    /\ LoopGuard
    /\ LET stepIndex == iterationState.stepIndex + 1
           context == BuildContext(stepIndex, iterationState.previousFeedback)
       IN  /\ iterationState' = [iterationState EXCEPT !.stepIndex = stepIndex]
           /\ contextMessages' = context
           /\ calls' = Issue("step", stepIndex, context)
    /\ pc' = "genStep"
    /\ UNCHANGED <<DHARMA_TARGET, DHARMA_MAX_STEPS, peer, scoreHistory, shouldContinue,
                   pending, dataStream, telemetry, errors>>

\* the error is logged and the loop goes on
Catch_KeepsGoing(error, settled) ==
    /\ errors' = Append(errors, [where |-> "step",
                                 stepIndex |-> iterationState.stepIndex,
                                 error |-> error])
    /\ calls' = settled
    /\ pc' = "loop"
    /\ UNCHANGED <<DHARMA_TARGET, DHARMA_MAX_STEPS, peer, scoreHistory, iterationState,
                   contextMessages, pending, dataStream, telemetry, shouldContinue>>

\* route.ts:241-244, with the call of the iteration settled as given
Catch(error, settled) ==
    /\ errors' = Append(errors, [where |-> "step",
                                 stepIndex |-> iterationState.stepIndex,
                                 error |-> error])
    /\ shouldContinue' = FALSE
    /\ calls' = settled
    /\ pc' = "loop"
    /\ UNCHANGED <<DHARMA_TARGET, DHARMA_MAX_STEPS, peer, scoreHistory, iterationState,
                   contextMessages, pending, dataStream, telemetry>>

\* route.ts:106: generateText rejects
StepThrows ==
    /\ pc = "genStep"
    /\ Catch("generateText rejected", Settle("rejected", [error |-> "service error"]))

\* zod keeps the declared keys of a valid object
ValidatedStep(stepData) ==
    [title |-> stepData.title, content |-> stepData.content,
     dharma |-> [mindfulness |-> stepData.dharma.mindfulness,
                 emptiness |-> stepData.dharma.emptiness,
                 nonDuality |-> stepData.dharma.nonDuality,
                 boundlessCare |-> stepData.dharma.boundlessCare,
                 rationale |-> stepData.dharma.rationale]]

\* the current entry handed over with the earlier ones
SliceButLast_Whole(h) == h

\* scoreHistory.slice(0, -1)
SliceButLast(h) == SubSeq(h, 1, Len(h) - 1)

\* route.ts:106-165: generateText resolves; parse, validate, record, ask for feedback
StepReturns(result) ==
    /\ pc = "genStep"
    /\ LET stepData == ParseStepData(result, iterationState.stepIndex)
       IN  IF ~singleStepSchemaOk(stepData)
           THEN Catch("ZodError", Settle("resolved", result))
           ELSE LET validatedStep == ValidatedStep(stepData)
                    modelDharmaScore == mean(validatedStep.dharma)
                    history == Append(scoreHistory,
                                 [step |-> iterationState.stepIndex,
                                  scores |-> [mindfulness |-> validatedStep.dharma.mindfulness,
                                              emptiness |-> validatedStep.dharma.emptiness,
                                              nonDuality |-> validatedStep.dharma.nonDuality,
                                              boundlessCare |-> validatedStep.dharma.boundlessCare],
                                  mean |-> modelDharmaScore,
                                  content |-> validatedStep.content])
                IN  /\ scoreHistory' = history
                    /\ pending' = <<[validatedStep |-> validatedStep,
                                     modelDharmaScore |-> modelDharmaScore]>>
                    /\ calls' = LET settled == Settle("resolved", result)
                                IN  Append(settled,
                                      [kind |-> "feedback",
                                       stepIndex |-> iterationState.stepIndex,
                                       request |-> [currentScores |-> validatedStep.dharma,
                                                    scoreHistory |-> SliceButLast(history),
                                                    target |-> DHARMA_TARGET],
                                       status |-> "pending"])
                    /\ pc' = "feedback"
                    /\ UNCHANGED <<DHARMA_TARGET, DHARMA_MAX_STEPS, peer, iterationState,
                                   shouldContinue, contextMessages, dataStream,
                                   telemetry, errors>>

\* the first feedback of the session kept for good
StoreFeedback_KeepFirst(llmFeedback) ==
    IF iterationState.previousFeedback = "" THEN llmFeedback
    ELSE iterationState.previousFeedback

\* route.ts:168: iterationState.previousFeedback = llmFeedback
StoreFeedback(llmFeedback) == llmFeedback

\* the routing metadata inverted
EnrichedStep_Inverted(validatedStep, modelDharmaScore, stepIndex, continuing, llmFeedback) ==
    [title |-> validatedStep.title,
     content |-> validatedStep.content,
     dharma |-> validatedStep.dharma,
     nextStep |-> IF continuing THEN "finalAnswer" ELSE "continue",
     dharmaScore |-> toFixed(modelDharmaScore, 3),
     dharmaBreakdown |->
         [mindfulness |-> toFixed(validatedStep.dharma.mindfulness, 2),
          emptiness |-> toFixed(validatedStep.dharma.emptiness, 2),
          nonDuality |-> toFixed(validatedStep.dharma.nonDuality, 2),
          boundlessCare |-> toFixed(validatedStep.dharma.boundlessCare, 2)],
     stepIndex |-> stepIndex,
     maxSteps |-> DHARMA_MAX_STEPS,
     serverFeedback |-> llmFeedback]

\* every step sent on as one to be continued
EnrichedStep_AlwaysContinue(validatedStep, modelDharmaScore, stepIndex, continuing, llmFeedback) ==
    [title |-> validatedStep.title,
     content |-> validatedStep.content,
     dharma |-> validatedStep.dharma,
     nextStep |-> "continue",
     dharmaScore |-> toFixed(modelDharmaScore, 3),
     dharmaBreakdown |->
         [mindfulness |-> toFixed(validatedStep.dharma.mindfulness, 2),
          emptiness |-> toFixed(validatedStep.dharma.emptiness, 2),
          nonDuality |-> toFixed(validatedStep.dharma.nonDuality, 2),
          boundlessCare |-> toFixed(validatedStep.dharma.boundlessCare, 2)],
     stepIndex |-> stepIndex,
     maxSteps |-> DHARMA_MAX_STEPS,
     serverFeedback |-> llmFeedback]

\* the step index sent counted from zero
EnrichedStep_ZeroBased(validatedStep, modelDharmaScore, stepIndex, continuing, llmFeedback) ==
    [title |-> validatedStep.title,
     content |-> validatedStep.content,
     dharma |-> validatedStep.dharma,
     nextStep |-> IF continuing THEN "continue" ELSE "finalAnswer",
     dharmaScore |-> toFixed(modelDharmaScore, 3),
     dharmaBreakdown |->
         [mindfulness |-> toFixed(validatedStep.dharma.mindfulness, 2),
          emptiness |-> toFixed(validatedStep.dharma.emptiness, 2),
          nonDuality |-> toFixed(validatedStep.dharma.nonDuality, 2),
          boundlessCare |-> toFixed(validatedStep.dharma.boundlessCare, 2)],
     stepIndex |-> stepIndex - 1,
     maxSteps |-> DHARMA_MAX_STEPS,
     serverFeedback |-> llmFeedback]

\* route.ts:214-230: the step as sent to the frontend; continuing is the
\* value of shouldContinue after the termination logic
EnrichedStep(validatedStep, modelDharmaScore, stepIndex, continuing, llmFeedback) ==
    [title |-> validatedStep.title,
     content |-> validatedStep.content,
     dharma |-> validatedStep.dharma,
     nextStep |-> IF continuing THEN "continue" ELSE "finalAnswer",
     dharmaScore |-> toFixed(modelDharmaScore, 3),
     dharmaBreakdown |->
         [mindfulness |-> toFixed(validatedStep.dharma.mindfulness, 2),
          emptiness |-> toFixed(validatedStep.dharma.emptiness, 2),
          nonDuality |-> toFixed(validatedStep.dharma.nonDuality, 2),
          boundlessCare |-> toFixed(validatedStep.dharma.boundlessCare, 2)],
     stepIndex |-> stepIndex,
     maxSteps |-> DHARMA_MAX_STEPS,
     serverFeedback |-> llmFeedback]

\* a step that drew any feedback is taken as not yet on target
FinishIteration_FeedbackDecides(llmFeedback) ==
    LET validatedStep == pending[1].validatedStep
        modelDharmaScore == pending[1].modelDharmaScore
        stepIndex == iterationState.stepIndex
        decision == TerminationDecision(stepIndex,
                        IF llmFeedback = "" THEN modelDharmaScore ELSE 0)
        enrichedStep == EnrichedStep(validatedStep, modelDharmaScore, stepIndex,
                                     decision.shouldContinue, llmFeedback)
    IN  /\ shouldContinue' = decision.shouldContinue
        /\ telemetry' = Append(telemetry,
             [event |-> "reasoning_step",
              stepIndex |-> stepIndex,
              maxSteps |-> DHARMA_MAX_STEPS,
              modelSelfScore |-> toFixed(modelDharmaScore, 3),
              modelScoreBreakdown |-> enrichedStep.dharmaBreakdown,
              targetThreshold |-> DHARMA_TARGET,
              targetReached |-> (modelDharmaScore >= DHARMA_TARGET),
              terminationReason |-> decision.terminationReason,
              shouldContinue |-> decision.shouldContinue,
              title |-> validatedStep.title,
              feedbackLength |-> Len(llmFeedback)])
        /\ iterationState' = [iterationState EXCEPT
                                !.previousFeedback = StoreFeedback(llmFeedback),
                                !.allSteps = Append(@, enrichedStep)]
        /\ dataStream' = Append(dataStream,
                                [type |-> "reasoning-step", content |-> enrichedStep])
        /\ pending' = <<>>
        /\ pc' = "loop"
        /\ UNCHANGED <<DHARMA_TARGET, DHARMA_MAX_STEPS, peer, scoreHistory,
                       contextMessages, errors>>

\* route.ts:168-239: the rest of the iteration once the feedback is known
FinishIteration(llmFeedback) ==
    LET validatedStep == pending[1].validatedStep
        modelDharmaScore == pending[1].modelDharmaScore
        stepIndex == iterationState.stepIndex
        decision == TerminationDecision(stepIndex, modelDharmaScore)
        enrichedStep == EnrichedStep(validatedStep, modelDharmaScore, stepIndex,
                                     decision.shouldContinue, llmFeedback)
    IN  /\ shouldContinue' = decision.shouldContinue
        /\ telemetry' = Append(telemetry,
             [event |-> "reasoning_step",
              stepIndex |-> stepIndex,
              maxSteps |-> DHARMA_MAX_STEPS,
              modelSelfScore |-> toFixed(modelDharmaScore, 3),
              modelScoreBreakdown |-> enrichedStep.dharmaBreakdown,
              targetThreshold |-> DHARMA_TARGET,
              targetReached |-> (modelDharmaScore >= DHARMA_TARGET),
              terminationReason |-> decision.terminationReason,
              shouldContinue |-> decision.shouldContinue,
              title |-> validatedStep.title,
              feedbackLength |-> Len(llmFeedback)])
        /\ iterationState' = [iterationState EXCEPT
                                !.previousFeedback = StoreFeedback(llmFeedback),
                                !.allSteps = Append(@, enrichedStep)]
        /\ dataStream' = Append(dataStream,
                                [type |-> "reasoning-step", content |-> enrichedStep])
        /\ pending' = <<>>
        /\ pc' = "loop"
        /\ UNCHANGED <<DHARMA_TARGET, DHARMA_MAX_STEPS, peer, scoreHistory,
                       contextMessages, errors>>

\* layout.tsx:119-131: the feedback service answers
FeedbackReturns(text) ==
    /\ pc = "feedback"
    /\ calls' = Settle("resolved", text)
    /\ FinishIteration(trim(text))

\* a remark on the trajectory added once there are earlier steps
DharmaFeedbackFallback_Trajectory(currentScores, history, target) ==
    IF Len(history) = 0 THEN generateSimpleFeedback(currentScores, target)
    ELSE generateSimpleFeedback(currentScores, target)
             \o " Scores are stagnant: try a new approach."

\* layout.tsx:133-138: what generateDharmaFeedback(currentScores, scoreHistory,
\* target) returns from its catch block
DharmaFeedbackFallback(currentScores, history, target) ==
    generateSimpleFeedback(currentScores, target)

\* layout.tsx:133-138: the feedback service fails, the rule-based text is used
FeedbackThrows ==
    /\ pc = "feedback"
    /\ calls' = Settle("rejected", <<>>)
    /\ LET request == calls[Len(calls)].request
       IN  FinishIteration(DharmaFeedbackFallback(request.currentScores,
                                                  request.scoreHistory,
                                                  request.target))

\* the last recorded step left out of the transcript
Transcript_DropsLast(allSteps) ==
    [idx \in 1 .. (Len(allSteps) - 1) |->
        [step |-> idx, title |-> allSteps[idx].title, content |-> allSteps[idx].content]]

\* route.ts:251-256: one transcript entry per recorded step
Transcript(allSteps) ==
    [idx \in 1 .. Len(allSteps) |->
        [step |-> idx, title |-> allSteps[idx].title, content |-> allSteps[idx].content]]

\* route.ts:48, 247-278: the guard fails, the synthesis request is issued
LoopExit ==
    /\ pc = "loop"
    /\ ~LoopGuard
    /\ calls' = Issue("synthesis", iterationState.stepIndex,
                      [completed |-> iterationState.stepIndex,
                       transcript |-> Transcript(iterationState.allSteps)])
    /\ pc' = "synthesis"
    /\ UNCHANGED <<DHARMA_TARGET, DHARMA_MAX_STEPS, peer, scoreHistory, iterationState,
                   shouldContinue, contextMessages, pending, dataStream,
                   telemetry, errors>>

\* route.ts:274-286
SynthesisReturns(text) ==
    /\ pc = "synthesis"
    /\ calls' = Settle("resolved", text)
    /\ dataStream' = Append(dataStream, [type |-> "text", content |-> text])
    /\ pc' = "done"
    /\ UNCHANGED <<DHARMA_TARGET, DHARMA_MAX_STEPS, peer, scoreHistory, iterationState,
                   shouldContinue, contextMessages, pending, telemetry, errors>>

\* no catch around the synthesis: the rejection leaves the callback
SynthesisThrows_Unhandled ==
    /\ pc = "synthesis"
    /\ calls' = Settle("rejected", "service error")
    /\ pc' = "crashed"
    /\ UNCHANGED <<DHARMA_TARGET, DHARMA_MAX_STEPS, peer, scoreHistory, iterationState,
                   shouldContinue, contextMessages, pending, telemetry, dataStream,
                   errors>>

\* the failure of the synthesis is logged and nothing is written to the stream
SynthesisThrows_Silent ==
    /\ pc = "synthesis"
    /\ calls' = Settle("rejected", "service error")
    /\ errors' = Append(errors, [where |-> "synthesis",
                                 stepIndex |-> iterationState.stepIndex,
                                 error |-> "generateText rejected"])
    /\ pc' = "done"
    /\ UNCHANGED <<DHARMA_TARGET, DHARMA_MAX_STEPS, peer, scoreHistory, iterationState,
                   shouldContinue, contextMessages, pending, telemetry, dataStream>>

\* route.ts:288-294
SynthesisThrows ==
    /\ pc = "synthesis"
    /\ calls' = Settle("rejected", "service error")
    /\ errors' = Append(errors, [where |-> "synthesis",
                                 stepIndex |-> iterationState.stepIndex,
                                 error |-> "generateText rejected"])
    /\ dataStream' = Append(dataStream,
         [type |-> "text",
          content |-> "Error generating final synthesis. Please review the reasoning steps above."])
    /\ pc' = "done"
    /\ UNCHANGED <<DHARMA_TARGET, DHARMA_MAX_STEPS, peer, scoreHistory, iterationState,
                   shouldContinue, contextMessages, pending, telemetry>>

\* the request-scoped state of the request whose callback runs
Session ==
    [scoreHistory |-> scoreHistory,
     iterationState |-> iterationState,
     shouldContinue |-> shouldContinue,
     pc |-> pc,
     contextMessages |-> contextMessages,
     pending |-> pending,
     calls |-> calls,
     dataStream |-> dataStream,
     telemetry |-> telemetry,
     errors |-> errors]

\* the score history kept at module level, one array for all requests
Swap_SharedHistory ==
    /\ pc # "loop" \/ calls = <<>>
    /\ peer' = Session
    /\ scoreHistory' = scoreHistory
    /\ iterationState' = peer.iterationState
    /\ shouldContinue' = peer.shouldContinue
    /\ pc' = peer.pc
    /\ contextMessages' = peer.contextMessages
    /\ pending' = peer.pending
    /\ calls' = peer.calls
    /\ dataStream' = peer.dataStream
    /\ telemetry' = peer.telemetry
    /\ errors' = peer.errors
    /\ UNCHANGED <<DHARMA_TARGET, DHARMA_MAX_STEPS>>

\* route.ts:22-46: two requests in one process.  Each call of POST creates
\* its own scoreHistory, iterationState and shouldContinue inside execute;
\* the module-level constants are the only state the two share.  A callback
\* runs up to its next await (or has not started yet), then the event loop
\* may resume the callback of the other request: the two change places.
Swap ==
    /\ pc # "loop" \/ calls = <<>>
    /\ peer' = Session
    /\ scoreHistory' = peer.scoreHistory
    /\ iterationState' = peer.iterationState
    /\ shouldContinue' = peer.shouldContinue
    /\ pc' = peer.pc
    /\ contextMessages' = peer.contextMessages
    /\ pending' = peer.pending
    /\ calls' = peer.calls
    /\ dataStream' = peer.dataStream
    /\ telemetry' = peer.telemetry
    /\ errors' = peer.errors
    /\ UNCHANGED <<DHARMA_TARGET, DHARMA_MAX_STEPS>>

Next ==
    \/ LoopEnter
    \/ StepThrows
    \/ \E result \in StepResults : StepReturns(result)
    \/ \E text \in FeedbackTexts : FeedbackReturns(text)
    \/ FeedbackThrows
    \/ LoopExit
    \/ \E text \in SynthesisTexts : SynthesisReturns(text)
    \/ SynthesisThrows

Spec == Init /\ [][Next]_vars

\* the parsing paths of the step response
NextParse ==
    \/ LoopEnter
    \/ StepThrows
    \/ \E result \in ParseResults : StepReturns(result)
    \/ \E text \in FeedbackTexts : FeedbackReturns(text)
    \/ FeedbackThrows
    \/ LoopExit
    \/ \E text \in SynthesisTexts : SynthesisReturns(text)
    \/ SynthesisThrows

SpecParse == Init /\ [][NextParse]_vars

\* the answers of the feedback service, an empty one included
NextFeedback ==
    \/ LoopEnter
    \/ StepThrows
    \/ \E result \in FewResults : StepReturns(result)
    \/ \E text \in FeedbackTextsWithBlank : FeedbackReturns(text)
    \/ FeedbackThrows
    \/ LoopExit
    \/ \E text \in SynthesisTexts : SynthesisReturns(text)
    \/ SynthesisThrows

SpecFeedback == Init /\ [][NextFeedback]_vars

\* the default configuration, route.ts:11-12
InitDefault ==
    /\ DHARMA_TARGET = DefaultTarget
    /\ DHARMA_MAX_STEPS = DefaultMaxSteps
    /\ InitState

NextDefault ==
    \/ LoopEnter
    \/ StepThrows
    \/ \E result \in FewResults : StepReturns(result)
    \/ \E text \in FeedbackTexts : FeedbackReturns(text)
    \/ FeedbackThrows
    \/ LoopExit
    \/ \E text \in SynthesisTexts : SynthesisReturns(text)
    \/ SynthesisThrows

SpecDefault == InitDefault /\ [][NextDefault]_vars

\* degenerate configurations: fewer steps allowed than the floor asks for.
\* Every awaited call settles and the callback then runs on, hence WF.
InitDegenerate ==
    /\ DHARMA_TARGET \in TargetChoices
    /\ DHARMA_MAX_STEPS \in (-1) .. (MINIMUM_STEPS - 1)
    /\ InitState

SpecDegenerate == InitDegenerate /\ [][Next]_vars /\ WF_vars(Next)

\* the feedback service is down: every call of it throws. Every awaited
\* call settles and the callback then runs on, hence WF.
NextFeedbackDown ==
    \/ LoopEnter
    \/ StepThrows
    \/ \E result \in StepResults : StepReturns(result)
    \/ FeedbackThrows
    \/ LoopExit
    \/ \E text \in SynthesisTexts : SynthesisReturns(text)
    \/ SynthesisThrows

SpecFeedbackDown == Init /\ [][NextFeedbackDown]_vars /\ WF_vars(NextFeedbackDown)

\* every configuration, with every external call settling in the end: an
\* awaited call returns or throws and the callback then runs on, hence WF.
SpecLive == Init /\ [][NextDefault]_vars /\ WF_vars(NextDefault)

\* short sessions over many score patterns, for the rule-based feedback
InitFallback ==
    /\ DHARMA_TARGET \in TargetChoices
    /\ DHARMA_MAX_STEPS \in 1 .. 2
    /\ InitState

NextFallback ==
    \/ LoopEnter
    \/ StepThrows
    \/ \E result \in FallbackResults : StepReturns(result)
    \/ \E text \in FeedbackTexts : FeedbackReturns(text)
    \/ FeedbackThrows
    \/ LoopExit
    \/ \E text \in SynthesisTexts : SynthesisReturns(text)
    \/ SynthesisThrows

SpecFallback == InitFallback /\ [][NextFallback]_vars

\* sessions long enough for the target to decide, over unequal sub-scores
InitScores ==
    /\ DHARMA_TARGET \in {0, DefaultTarget}
    /\ DHARMA_MAX_STEPS = MINIMUM_STEPS + 1
    /\ InitState

NextScores ==
    \/ LoopEnter
    \/ StepThrows
    \/ \E result \in ScoredResults : StepReturns(result)
    \/ \E text \in FeedbackTexts : FeedbackReturns(text)
    \/ FeedbackThrows
    \/ LoopExit
    \/ \E text \in SynthesisTexts : SynthesisReturns(text)
    \/ SynthesisThrows

SpecScores == InitScores /\ [][NextScores]_vars

\* two requests served concurrently, their awaited calls settling in any order
PairMaxSteps == 2

PairResults == {HighResult, PlainTextResult, OutOfRangeResult}

InitPair ==
    /\ DHARMA_TARGET = DefaultTarget
    /\ DHARMA_MAX_STEPS = PairMaxSteps
    /\ InitState

NextPair ==
    \/ LoopEnter
    \/ StepThrows
    \/ \E result \in PairResults : StepReturns(result)
    \/ \E text \in FeedbackTexts : FeedbackReturns(text)
    \/ FeedbackThrows
    \/ LoopExit
    \/ \E text \in SynthesisTexts : SynthesisReturns(text)
    \/ SynthesisThrows
    \/ Swap

SpecPair == InitPair /\ [][NextPair]_vars

\* every configured ceiling from -1 up, default target
InitCeilings ==
    /\ DHARMA_TARGET = DefaultTarget
    /\ DHARMA_MAX_STEPS \in MaxStepsChoices
    /\ InitState

SpecCeilings == InitCeilings /\ [][NextDefault]_vars

\* targets outside (0,1]: -0.1, 0 and 1.1; steps scored 0 or 1 throughout,
\* and a step the schema rejects
OutsideTargets == {0 - Tenths(1), 0, One + Tenths(1)}

ExtremeResults ==
    {ScoreResult(0, 0, 0, 0), ScoreResult(One, One, One, One), OutOfRangeResult}

InitTargets ==
    /\ DHARMA_TARGET \in OutsideTargets
    /\ DHARMA_MAX_STEPS \in MaxStepsChoices
    /\ InitState

NextTargets ==
    \/ LoopEnter
    \/ StepThrows
    \/ \E result \in ExtremeResults : StepReturns(result)
    \/ \E text \in FeedbackTexts : FeedbackReturns(text)
    \/ FeedbackThrows
    \/ LoopExit
    \/ \E text \in SynthesisTexts : SynthesisReturns(text)
    \/ SynthesisThrows

SpecTargets == InitTargets /\ [][NextTargets]_vars

----------------------------------------------------------------------------
(* Vocabulary of the properties *)

allSteps == iterationState.allSteps

Max2(a, b) == IF a >= b THEN a ELSE b
Min2(a, b) == IF a <= b THEN a ELSE b

\* the per-step catch ran: the loop was aborted by an error inside an iteration
Aborted == \E k \in 1 .. Len(errors) : errors[k].where = "step"

\* the loop has been left
LoopOver == pc \in {"synthesis", "done"}

Reasons ==
    {"max_steps_reached", "minimum_steps_required", "target_reached", "continuing"}

StepCalls == {k \in 1 .. Len(calls) : calls[k].kind = "step"}
FeedbackCalls == {k \in 1 .. Len(calls) : calls[k].kind = "feedback"}

\* the step service answered call k with text that yields no JSON value
Unparsable(k) ==
    /\ calls[k].kind = "step"
    /\ calls[k].status = "resolved"
    /\ ~(calls[k].result.jsonMatch /\ calls[k].result.jsonParses)

----------------------------------------------------------------------------
(* C1: after every completed step with index i and aggregate m the decision *)
(* follows the priority chain max_steps_reached (i >= maxSteps), then       *)
(* minimum_steps_required (i < 4), then target_reached (m >= target), then  *)
(* continuing; one record with one of the four reasons per completed step,  *)
(* and the loop variable carries that decision.                             *)
C1_PriorityChain ==
    /\ Len(telemetry) = Len(allSteps)
    /\ \A k \in 1 .. Len(telemetry) :
        LET r == telemetry[k]
            i == r.stepIndex
            m == scoreHistory[k].mean
        IN  /\ i = k
            /\ scoreHistory[k].step = i
            /\ r.terminationReason \in Reasons
            /\ i >= DHARMA_MAX_STEPS
                => r.terminationReason = "max_steps_reached" /\ ~r.shouldContinue
            /\ i < DHARMA_MAX_STEPS /\ i < 4
                => r.terminationReason = "minimum_steps_required" /\ r.shouldContinue
            /\ i < DHARMA_MAX_STEPS /\ i >= 4 /\ m >= DHARMA_TARGET
                => r.terminationReason = "target_reached" /\ ~r.shouldContinue
            /\ i < DHARMA_MAX_STEPS /\ i >= 4 /\ m < DHARMA_TARGET
                => r.terminationReason = "continuing" /\ r.shouldContinue
    /\ (pc = "loop" /\ ~Aborted /\ Len(telemetry) > 0)
        => shouldContinue = telemetry[Len(telemetry)].shouldContinue

C1_Witness ==
    /\ Len(telemetry) = 5
    /\ telemetry[3].terminationReason = "minimum_steps_required"
    /\ telemetry[4].terminationReason = "continuing"
    /\ telemetry[5].terminationReason = "max_steps_reached"
    /\ scoreHistory[5].mean >= DHARMA_TARGET

----------------------------------------------------------------------------
----------------------------------------------------------------------------
\* no step request was rejected by the service
NoStepCallRejected ==
    \A k \in StepCalls : calls[k].status # "rejected"

(* C3: with the default configuration (maxSteps 10, floor 4) every session *)
(* generates between 4 and 10 steps whatever the model returns: well-formed *)
(* steps, text without JSON, JSON failing the schema, any scores.           *)
C3_Original ==
    (LoopOver /\ DHARMA_MAX_STEPS = DefaultMaxSteps /\ NoStepCallRejected)
        => (4 <= Len(allSteps) /\ Len(allSteps) <= 10)

----------------------------------------------------------------------------
\* the step service answered call k with a JSON value the schema rejects
InvalidPayload(k) ==
    /\ calls[k].kind = "step"
    /\ calls[k].status = "resolved"
    /\ calls[k].result.jsonMatch /\ calls[k].result.jsonParses
    /\ \/ calls[k].result.json.fields # StepFields
       \/ calls[k].result.json.dharma.fields # DharmaFields
       \/ \E v \in {calls[k].result.json.dharma.mindfulness,
                    calls[k].result.json.dharma.emptiness,
                    calls[k].result.json.dharma.nonDuality,
                    calls[k].result.json.dharma.boundlessCare} : v < 0 \/ v > One

(* C4: a payload that parses as JSON but has a sub-score outside [0,1] or  *)
(* lacks a required field is handled like a parse failure: a degraded step  *)
(* is recorded and the loop goes on; it never becomes an error that aborts  *)
(* the loop.                                                                *)
C4_Original ==
    \A k \in 1 .. Len(calls) :
        InvalidPayload(k) =>
            /\ ~\E e \in 1 .. Len(errors) :
                    errors[e].where = "step" /\ errors[e].stepIndex = calls[k].stepIndex
            /\ Len(scoreHistory) >= calls[k].stepIndex

----------------------------------------------------------------------------
HalfScores ==
    [mindfulness |-> Tenths(5), emptiness |-> Tenths(5),
     nonDuality |-> Tenths(5), boundlessCare |-> Tenths(5)]

(* C5: when the step service returns text from which no JSON can be        *)
(* extracted or parsed, a degraded step is recorded: content is the raw     *)
(* text, title 'Reasoning Step N', all four sub-scores 0.5, the rationale   *)
(* flags the parse failure; no error is raised, and the step is scored,     *)
(* given feedback, emitted and subjected to the normal termination rules.   *)
C5_DegradedStep ==
    \A k \in 1 .. Len(calls) :
        Unparsable(k) =>
            LET n == calls[k].stepIndex
                raw == calls[k].result.text
            IN  /\ ~\E e \in 1 .. Len(errors) :
                        errors[e].where = "step" /\ errors[e].stepIndex = n
                /\ Len(scoreHistory) >= n
                /\ scoreHistory[n].step = n
                /\ scoreHistory[n].content = raw
                /\ scoreHistory[n].scores = HalfScores
                /\ scoreHistory[n].mean = Tenths(5)
                /\ \E f \in FeedbackCalls : f = k + 1 /\ calls[f].stepIndex = n
                /\ \/ /\ pc = "feedback"
                      /\ iterationState.stepIndex = n
                      /\ Len(allSteps) = n - 1
                   \/ /\ Len(allSteps) >= n
                      /\ allSteps[n].title = "Reasoning Step " \o ToString(n)
                      /\ allSteps[n].content = raw
                      /\ allSteps[n].dharma.mindfulness = Tenths(5)
                      /\ allSteps[n].dharma.emptiness = Tenths(5)
                      /\ allSteps[n].dharma.nonDuality = Tenths(5)
                      /\ allSteps[n].dharma.boundlessCare = Tenths(5)
                      /\ allSteps[n].dharma.rationale = "Auto-generated (parsing failed)"
                      /\ allSteps[n].stepIndex = n
                      /\ dataStream[n] = [type |-> "reasoning-step", content |-> allSteps[n]]
                      /\ telemetry[n].shouldContinue
                            = (n < DHARMA_MAX_STEPS /\ (n < 4 \/ Tenths(5) < DHARMA_TARGET))
                      /\ allSteps[n].nextStep
                            = IF telemetry[n].shouldContinue THEN "continue" ELSE "finalAnswer"

C5_Witness ==
    \E k \in 1 .. Len(calls) :
        /\ Unparsable(k)
        /\ calls[k].result.jsonMatch
        /\ Len(allSteps) > calls[k].stepIndex
        /\ allSteps[calls[k].stepIndex].content = calls[k].result.text

----------------------------------------------------------------------------
LastReason == telemetry[Len(telemetry)].terminationReason

(* C6, as claimed: if maxSteps < 4, an error-free session ends after       *)
(* exactly maxSteps steps, the last one with reason max_steps_reached, and  *)
(* no step index exceeds maxSteps.                                          *)
C6_Original ==
    (LoopOver /\ ~Aborted /\ DHARMA_MAX_STEPS < 4) =>
        /\ Len(allSteps) = DHARMA_MAX_STEPS
        /\ iterationState.stepIndex <= DHARMA_MAX_STEPS
        /\ Len(telemetry) > 0 => LastReason = "max_steps_reached"

C6_DegenerateInv ==
    DHARMA_MAX_STEPS < 4 =>
        /\ iterationState.stepIndex <= Max2(DHARMA_MAX_STEPS, 0)
        /\ \A k \in 1 .. Len(calls) : calls[k].stepIndex <= Max2(DHARMA_MAX_STEPS, 0)
        /\ (LoopOver /\ ~Aborted) =>
            /\ Len(allSteps) = Max2(DHARMA_MAX_STEPS, 0)
            /\ Len(allSteps) > 0 => LastReason = "max_steps_reached"
            /\ \A k \in 1 .. Len(telemetry) - 1 :
                    telemetry[k].terminationReason = "minimum_steps_required"

(* C6, amended: if maxSteps < 4, an error-free session ends after exactly  *)
(* max(maxSteps, 0) steps, the last one (if any) with reason                *)
(* max_steps_reached; no step index exceeds max(maxSteps, 0) and every      *)
(* session comes to its end.                                                *)
C6_DegenerateCeiling == []C6_DegenerateInv /\ <>(pc = "done")

C6_Witness ==
    /\ pc = "done"
    /\ ~Aborted
    /\ DHARMA_MAX_STEPS = 3
    /\ Len(allSteps) = 3
    /\ LastReason = "max_steps_reached"
    /\ scoreHistory[3].mean < DHARMA_TARGET

----------------------------------------------------------------------------
(* C7: once a step with index >= 4 has an aggregate >= target, the loop    *)
(* stops at that step: no step request and no feedback request is issued    *)
(* for a later step index.                                                  *)
C7_StopsAtTarget ==
    \A k \in 1 .. Len(scoreHistory) :
        (scoreHistory[k].step >= 4 /\ scoreHistory[k].mean >= DHARMA_TARGET) =>
            /\ iterationState.stepIndex <= scoreHistory[k].step
            /\ \A c \in StepCalls \cup FeedbackCalls :
                    calls[c].stepIndex <= scoreHistory[k].step

C7_Witness ==
    /\ pc = "done"
    /\ Len(scoreHistory) = 4
    /\ scoreHistory[4].mean >= DHARMA_TARGET
    /\ scoreHistory[3].mean < DHARMA_TARGET
    /\ DHARMA_MAX_STEPS > 4
    /\ LastReason = "target_reached"

----------------------------------------------------------------------------
AllAtTarget ==
    \A k \in 1 .. Len(scoreHistory) : scoreHistory[k].mean >= DHARMA_TARGET

AllBelowTarget ==
    \A k \in 1 .. Len(scoreHistory) : scoreHistory[k].mean < DHARMA_TARGET

(* C8: if every step request yields a step whose aggregate is >= target    *)
(* and maxSteps >= 4, exactly 4 steps are generated: steps 1 to 3 continue  *)
(* because of the floor although the target is met, the loop stops at 4.    *)
C8_ExactlyFour ==
    (LoopOver /\ ~Aborted /\ DHARMA_MAX_STEPS >= 4 /\ AllAtTarget) =>
        /\ Len(allSteps) = 4
        /\ iterationState.stepIndex = 4
        /\ \A k \in 1 .. 3 :
            /\ telemetry[k].terminationReason = "minimum_steps_required"
            /\ telemetry[k].targetReached
            /\ allSteps[k].nextStep = "continue"
        /\ ~telemetry[4].shouldContinue
        /\ allSteps[4].nextStep = "finalAnswer"

C8_Witness ==
    /\ pc = "done"
    /\ ~Aborted
    /\ DHARMA_MAX_STEPS = 5
    /\ DHARMA_TARGET = DefaultTarget
    /\ Len(allSteps) = 4
    /\ \A k \in 1 .. 4 : scoreHistory[k].mean = Tenths(9)

----------------------------------------------------------------------------
NoTargetReached ==
    \A k \in 1 .. Len(telemetry) : telemetry[k].terminationReason # "target_reached"

(* C9, as claimed: if every step request yields a step whose aggregate is  *)
(* < target, exactly maxSteps steps are generated, the last with reason     *)
(* max_steps_reached, none with reason target_reached.                      *)
C9_Original ==
    (LoopOver /\ ~Aborted /\ AllBelowTarget) =>
        /\ Len(allSteps) = DHARMA_MAX_STEPS
        /\ Len(telemetry) > 0 => LastReason = "max_steps_reached"
        /\ NoTargetReached

(* C9, amended: under the same condition exactly max(maxSteps, 0) steps    *)
(* are generated, the last (if any) with reason max_steps_reached, none     *)
(* with reason target_reached.                                              *)
C9_RunsToCeiling ==
    (LoopOver /\ ~Aborted /\ AllBelowTarget) =>
        /\ Len(allSteps) = Max2(DHARMA_MAX_STEPS, 0)
        /\ Len(telemetry) > 0 => LastReason = "max_steps_reached"
        /\ NoTargetReached

C9_Witness ==
    /\ pc = "done"
    /\ ~Aborted
    /\ DHARMA_MAX_STEPS = 5
    /\ DHARMA_TARGET = DefaultTarget
    /\ Len(allSteps) = 5
    /\ \A k \in 1 .. 5 : scoreHistory[k].mean = Tenths(1)
    /\ LastReason = "max_steps_reached"

----------------------------------------------------------------------------
\* what the feedback generator returned for feedback call f
FeedbackProduced(f) ==
    IF calls[f].status = "resolved"
    THEN trim(calls[f].result)
    ELSE generateSimpleFeedback(calls[f].request.currentScores, calls[f].request.target)

FeedbackNote(n, feedback) ==
    [role |-> "assistant",
     content |-> "[Server Feedback from Step " \o ToString(n) \o "]: " \o feedback]

(* C10: the feedback injected into the context of step N+1 is the string   *)
(* the feedback generator produced for step N, the one attached to emitted  *)
(* step N as serverFeedback: not that of an earlier step, and not left out  *)
(* when there is one (a non-empty string).                                  *)
C10_FeedbackInjected ==
    (pc = "genStep" /\ iterationState.stepIndex >= 2) =>
        LET N == iterationState.stepIndex - 1
            fb == allSteps[N].serverFeedback
        IN  /\ Len(allSteps) = N
            /\ \E f \in FeedbackCalls :
                    /\ calls[f].stepIndex = N
                    /\ calls[f].status # "pending"
                    /\ fb = FeedbackProduced(f)
            /\ dataStream[N].content.serverFeedback = fb
            /\ calls[Len(calls)].kind = "step"
            /\ calls[Len(calls)].request = contextMessages
            /\ SubSeq(contextMessages, 1, Len(messages)) = messages
            /\ IF fb # ""
               THEN /\ Len(contextMessages) = Len(messages) + 2
                    /\ contextMessages[Len(messages) + 1] = FeedbackNote(N, fb)
               ELSE Len(contextMessages) = Len(messages) + 1

C10_Witness ==
    /\ pc = "genStep"
    /\ iterationState.stepIndex = 3
    /\ allSteps[1].serverFeedback # ""
    /\ allSteps[2].serverFeedback # ""
    /\ allSteps[1].serverFeedback # allSteps[2].serverFeedback
    /\ contextMessages[Len(messages) + 1] = FeedbackNote(2, allSteps[2].serverFeedback)

----------------------------------------------------------------------------
(* C11: for every step N whose feedback is requested, the history handed to *)
(* the feedback generator is exactly the entries of steps 1..N-1, in        *)
(* increasing step order, without the entry of step N (empty for N = 1).    *)
C11_HistoryExcludesCurrent ==
    \A f \in FeedbackCalls :
        LET N == calls[f].stepIndex
            history == calls[f].request.scoreHistory
        IN  /\ Len(history) = N - 1
            /\ \A j \in 1 .. Len(history) : history[j].step = j
            /\ history = SubSeq(scoreHistory, 1, N - 1)
            /\ Len(scoreHistory) >= N
            /\ scoreHistory[N].step = N
            /\ \A j \in 1 .. Len(history) : history[j].step # N

\* a third step's feedback request carrying the entries of steps 1 and 2,
\* and a first step's request carrying none
C11_Witness ==
    /\ \E f \in FeedbackCalls :
           calls[f].stepIndex = 3 /\ Len(calls[f].request.scoreHistory) = 2
    /\ \E f \in FeedbackCalls :
           calls[f].stepIndex = 1 /\ calls[f].request.scoreHistory = <<>>

----------------------------------------------------------------------------
(* C12: the external calls of a session are strictly sequential: the        *)
(* feedback call of step N is issued only once the step call of step N has  *)
(* completed, the step call of step N+1 only once the feedback call of step *)
(* N has settled (by an answer or by the fallback), and at no time are two  *)
(* calls outstanding.                                                       *)
Outstanding == {k \in 1 .. Len(calls) : calls[k].status = "pending"}

C12_Sequential ==
    /\ Cardinality(Outstanding) <= 1
    /\ Outstanding \subseteq {Len(calls)}
    /\ (Outstanding # {}) <=> (pc \in {"genStep", "feedback", "synthesis"})
    /\ \A f \in FeedbackCalls :
           /\ f > 1
           /\ calls[f - 1].kind = "step"
           /\ calls[f - 1].stepIndex = calls[f].stepIndex
           /\ calls[f - 1].status = "resolved"
    /\ \A s \in StepCalls :
           IF calls[s].stepIndex = 1 THEN s = 1
           ELSE /\ s > 1
                /\ calls[s - 1].kind = "feedback"
                /\ calls[s - 1].stepIndex = calls[s].stepIndex - 1
                /\ calls[s - 1].status \in {"resolved", "rejected"}

\* the step call of step 3 outstanding, after one feedback call settled by
\* an answer and one by the fallback
C12_Witness ==
    /\ Len(calls) = 5
    /\ calls[5].kind = "step" /\ calls[5].stepIndex = 3 /\ calls[5].status = "pending"
    /\ calls[2].status = "resolved"
    /\ calls[4].status = "rejected"

----------------------------------------------------------------------------
(* The shape of the outbound stream *)
StepEvent(k) ==
    /\ dataStream[k].type = "reasoning-step"
    /\ dataStream[k].content = allSteps[k]
    /\ dataStream[k].content.stepIndex = k
    /\ telemetry[k].stepIndex = k

C13_StreamShape ==
    /\ Len(telemetry) = Len(allSteps)
    /\ IF pc = "done"
       THEN /\ Len(dataStream) = Len(telemetry) + 1
            /\ dataStream[Len(dataStream)].type = "text"
       ELSE Len(dataStream) = Len(telemetry)
    /\ \A k \in 1 .. Len(telemetry) : StepEvent(k)

\* the text event once written is the last event for good
C13_TextIsLast ==
    [][(Len(dataStream) > 0 /\ dataStream[Len(dataStream)].type = "text")
         => dataStream' = dataStream]_vars

(* C13: the outbound stream is one reasoning-step event per completed       *)
(* iteration, in iteration order, followed by exactly one text event; the   *)
(* text event is written after the loop has ended and no reasoning-step     *)
(* event follows it, whether the synthesis succeeds or fails and whether or *)
(* not a step failed.                                                       *)
C13_Stream == []C13_StreamShape /\ C13_TextIsLast

\* a finished session of two emitted steps whose third step failed and whose
\* synthesis failed as well
C13_Witness ==
    /\ pc = "done"
    /\ Aborted
    /\ Len(dataStream) = 3
    /\ calls[Len(calls)].status = "rejected"

----------------------------------------------------------------------------
(* A session whose feedback calls all throw *)

\* the termination rules applied to the scores of recorded step k
RulesStop(k) ==
    \/ k >= DHARMA_MAX_STEPS
    \/ k >= MINIMUM_STEPS /\ scoreHistory[k].mean >= DHARMA_TARGET

FallbackSentences ==
    {"Strengthen mindfulness: explicitly note assumptions and limitations.",
     "Strengthen emptiness: hold conclusions more lightly, acknowledge uncertainty.",
     "Strengthen non-duality: consider complementary perspectives and interconnections.",
     "Strengthen boundless care: expand consideration of all stakeholders and potential harms."}

C14_Inv ==
    /\ \A f \in FeedbackCalls : calls[f].status \in {"pending", "rejected"}
    \* a feedback failure never aborts the loop: the step it belongs to is recorded
    /\ \A f \in FeedbackCalls :
           calls[f].status = "rejected" => Len(allSteps) >= calls[f].stepIndex
    /\ \A k \in 1 .. Len(errors) :
           errors[k].where = "step" =>
               \E c \in StepCalls : /\ calls[c].stepIndex = errors[k].stepIndex
                                    /\ (calls[c].status = "rejected" \/ InvalidPayload(c))
    \* the number of steps is the one the termination rules dictate
    /\ \A k \in 1 .. Len(allSteps) : k < Len(allSteps) => ~RulesStop(k)
    /\ (LoopOver /\ ~Aborted) =>
           IF Len(allSteps) = 0 THEN DHARMA_MAX_STEPS <= 0
           ELSE RulesStop(Len(allSteps))
    \* every emitted step carries a non-empty text made of the canned sentences
    /\ \A k \in 1 .. Len(allSteps) :
           /\ dataStream[k].content.serverFeedback # ""
           /\ \/ dataStream[k].content.serverFeedback
                    = "Strong alignment across all principles. Maintain this contemplative depth."
              \/ \E parts \in UNION {[1 .. n -> FallbackSentences] : n \in 1 .. 4} :
                    dataStream[k].content.serverFeedback = JoinSpace(parts)
    \* the synthesis is attempted
    /\ pc = "done" => \E c \in 1 .. Len(calls) : calls[c].kind = "synthesis"

(* C14: if the feedback service throws on every call, the session still    *)
(* completes with the number of steps the termination rules dictate for the *)
(* generated scores (the failure neither aborts nor stalls the loop), every *)
(* emitted step carries a non-empty fallback-derived feedback string, and   *)
(* the synthesis call is still attempted.                                   *)
C14_FeedbackDown == []C14_Inv /\ <>(pc = "done")

\* five steps completed on the fallback alone, the session finished
C14_Witness ==
    /\ pc = "done"
    /\ Len(allSteps) = 5
    /\ \A f \in FeedbackCalls : calls[f].status = "rejected"
    /\ Cardinality(FeedbackCalls) = 5

----------------------------------------------------------------------------
(* C15: when the step-generation call itself throws at step k the loop is   *)
(* aborted at once: no feedback call is made for step k, no step with index *)
(* k or more is recorded or emitted, no further step call is issued, and    *)
(* the synthesis follows with the transcript of the recorded steps 1..k-1.  *)
C15_StepCallThrows ==
    \A c \in StepCalls :
        calls[c].status = "rejected" =>
            LET k == calls[c].stepIndex
            IN  /\ \A f \in FeedbackCalls : calls[f].stepIndex < k
                /\ \A s \in StepCalls : s <= c /\ calls[s].stepIndex <= k
                /\ Len(allSteps) = k - 1
                /\ Len(scoreHistory) = k - 1
                /\ \A e \in 1 .. Len(dataStream) :
                       dataStream[e].type = "reasoning-step"
                           => dataStream[e].content.stepIndex < k
                /\ iterationState.stepIndex = k
                /\ ~shouldContinue
                /\ pc \in {"loop", "synthesis", "done"}
                /\ pc = "loop" => ~ENABLED LoopEnter
                /\ c < Len(calls) =>
                       /\ Len(calls) = c + 1
                       /\ calls[c + 1].kind = "synthesis"
                       /\ calls[c + 1].request.transcript = Transcript(allSteps)
                       /\ Len(calls[c + 1].request.transcript) = k - 1

\* the third step call threw and the synthesis was asked for steps 1 and 2
C15_Witness ==
    \E c \in StepCalls :
        /\ calls[c].status = "rejected"
        /\ calls[c].stepIndex = 3
        /\ Len(calls) = c + 1
        /\ Len(calls[c + 1].request.transcript) = 2

----------------------------------------------------------------------------
(* The synthesis after the loop *)
SynthesisCalls == {k \in 1 .. Len(calls) : calls[k].kind = "synthesis"}

C16_Inv ==
    /\ Cardinality(SynthesisCalls) = IF LoopOver THEN 1 ELSE 0
    /\ \A c \in SynthesisCalls :
           LET transcript == calls[c].request.transcript
           IN  /\ c = Len(calls)
               /\ Len(transcript) = Len(allSteps)
               /\ \A k \in 1 .. Len(allSteps) :
                      /\ transcript[k].step = k
                      /\ transcript[k].title = allSteps[k].title
                      /\ transcript[k].content = allSteps[k].content
               /\ calls[c].status = "pending" <=> pc = "synthesis"
               /\ calls[c].status = "resolved" =>
                      dataStream[Len(dataStream)]
                          = [type |-> "text", content |-> calls[c].result]
               /\ calls[c].status = "rejected" =>
                      dataStream[Len(dataStream)]
                          = [type |-> "text",
                             content |-> "Error generating final synthesis. Please review the reasoning steps above."]

\* the events already written stay as they are
C16_EventsKept ==
    [][/\ Len(dataStream') >= Len(dataStream)
       /\ SubSeq(dataStream', 1, Len(dataStream)) = dataStream]_vars

(* C16: after the loop exits, for whatever reason, exactly one synthesis    *)
(* call is issued whose transcript holds every recorded step (title and     *)
(* content) in step order; if it succeeds its output is the content of the  *)
(* text event, if it fails the text event carries the fixed diagnostic      *)
(* message, and the reasoning-step events already emitted are unaffected.   *)
C16_Synthesis == []C16_Inv /\ C16_EventsKept

\* a failed synthesis after two recorded steps and an aborted third
C16_Witness ==
    /\ pc = "done"
    /\ Aborted
    /\ Len(allSteps) = 2
    /\ \E c \in SynthesisCalls : calls[c].status = "rejected"
    /\ dataStream[1].type = "reasoning-step"

----------------------------------------------------------------------------
(* C17: every session eventually reaches DONE and emits nothing afterwards, *)
(* for every configuration and every combination of outcomes (return or     *)
(* throw) of the step, feedback and synthesis services, provided each       *)
(* external call eventually returns or throws.                              *)
C17_ReachesDone ==
    /\ <>[](pc = "done")
    /\ [][pc = "done" => /\ dataStream' = dataStream
                         /\ calls' = calls
                         /\ pc' = "done"]_vars

\* a finished session in which each of the three services threw once
C17_Witness ==
    /\ pc = "done"
    /\ \E c \in StepCalls : calls[c].status = "rejected"
    /\ \E c \in FeedbackCalls : calls[c].status = "rejected"
    /\ \E c \in SynthesisCalls : calls[c].status = "rejected"
    /\ DHARMA_MAX_STEPS = MaxMaxSteps

----------------------------------------------------------------------------
(* The rule-based feedback of a failed feedback call *)

\* the four sub-scores of the request of feedback call f
SubScores(f) ==
    <<calls[f].request.currentScores.mindfulness,
      calls[f].request.currentScores.emptiness,
      calls[f].request.currentScores.nonDuality,
      calls[f].request.currentScores.boundlessCare>>

FailedFeedbackCalls == {f \in FeedbackCalls : calls[f].status = "rejected"}

\* what the failed call f returned to the loop
Returned(f) == allSteps[calls[f].stepIndex].serverFeedback

(* C18: when the feedback service call fails, generateDharmaFeedback        *)
(* returns a non-empty string that depends on the four sub-scores and the   *)
(* target only: two failing calls with the same scores and target return    *)
(* the same text, whatever the history argument (and the rationale) is.     *)
C18_FallbackDeterministic ==
    \A f \in FailedFeedbackCalls :
        /\ Len(allSteps) >= calls[f].stepIndex
        /\ Returned(f) # ""
        /\ \A g \in FailedFeedbackCalls :
               (SubScores(f) = SubScores(g)
                    /\ calls[f].request.target = calls[g].request.target)
                  => Returned(f) = Returned(g)

\* two failed calls with equal sub-scores whose histories and rationales differ
C18_Witness ==
    \E f, g \in FailedFeedbackCalls :
        /\ SubScores(f) = SubScores(g)
        /\ calls[f].request.scoreHistory = <<>>
        /\ Len(calls[g].request.scoreHistory) = 1
        /\ calls[f].request.currentScores.rationale
               # calls[g].request.currentScores.rationale
        /\ Len(allSteps) = 2

----------------------------------------------------------------------------
(* The sentences of the rule-based feedback *)

\* the canned sentences in the order of the dimensions: mindfulness,
\* emptiness, non-duality, boundless care
CannedSentence ==
    <<"Strengthen mindfulness: explicitly note assumptions and limitations.",
      "Strengthen emptiness: hold conclusions more lightly, acknowledge uncertainty.",
      "Strengthen non-duality: consider complementary perspectives and interconnections.",
      "Strengthen boundless care: expand consideration of all stakeholders and potential harms.">>

\* the dimensions (by position) of call f whose score is strictly below target
BelowTarget(f) == {d \in 1 .. 4 : SubScores(f)[d] < calls[f].request.target}

(* C19: the fallback feedback holds exactly one canned sentence for each of *)
(* the four dimensions whose score is strictly below target, in the fixed   *)
(* order mindfulness, emptiness, non-duality, boundless care, and none for  *)
(* a dimension at or above target; when no dimension is below target it is  *)
(* the single fixed all-aligned message.                                    *)
C19_FallbackSentences ==
    \A f \in FailedFeedbackCalls :
        IF BelowTarget(f) = {}
        THEN Returned(f)
                 = "Strong alignment across all principles. Maintain this contemplative depth."
        ELSE \E parts \in [1 .. Cardinality(BelowTarget(f)) -> BelowTarget(f)] :
                /\ \A i, j \in DOMAIN parts : i < j => parts[i] < parts[j]
                /\ Returned(f)
                      = JoinSpace([i \in DOMAIN parts |-> CannedSentence[parts[i]]])

\* a failed call at target 0.75 with emptiness and boundless care at 0.5 and
\* the other two at 0.9: the second and the fourth sentence, in that order
C19_Witness ==
    \E f \in FailedFeedbackCalls :
        /\ calls[f].request.target = DefaultTarget
        /\ SubScores(f) = <<Tenths(9), Tenths(5), Tenths(9), Tenths(5)>>
        /\ Returned(f) = CannedSentence[2] \o " " \o CannedSentence[4]

----------------------------------------------------------------------------
(* The aggregate score *)

\* the sum of the four sub-scores of recorded step k
SumOfScores(k) ==
    scoreHistory[k].scores.mindfulness + scoreHistory[k].scores.emptiness
        + scoreHistory[k].scores.nonDuality + scoreHistory[k].scores.boundlessCare

(* C20: for sub-scores a, b, c, d in [0,1] the aggregate (mean) equals      *)
(* (a+b+c+d)/4 and lies in [0,1], and it is the value compared against the  *)
(* target in the termination decision.                                      *)
C20_Aggregate ==
    \A k \in 1 .. Len(scoreHistory) :
        /\ \A v \in {scoreHistory[k].scores.mindfulness, scoreHistory[k].scores.emptiness,
                      scoreHistory[k].scores.nonDuality,
                      scoreHistory[k].scores.boundlessCare} : 0 <= v /\ v <= One
        /\ 4 * scoreHistory[k].mean = SumOfScores(k)
        /\ 0 <= scoreHistory[k].mean /\ scoreHistory[k].mean <= One
        /\ k <= Len(telemetry) =>
               /\ telemetry[k].targetReached <=> (SumOfScores(k) >= 4 * DHARMA_TARGET)
               /\ telemetry[k].modelSelfScore = toFixed(scoreHistory[k].mean, 3)
               /\ (MINIMUM_STEPS <= k /\ k < DHARMA_MAX_STEPS) =>
                      (telemetry[k].shouldContinue
                           <=> (SumOfScores(k) < 4 * DHARMA_TARGET))

\* step 4 of 5 with sub-scores 1, 0.5, 1, 0.5: the mean 0.75 meets the target
\* 0.75 and stops the loop, after a step of mean 0.7 that did not count yet
C20_Witness ==
    /\ Len(telemetry) = MINIMUM_STEPS
    /\ DHARMA_TARGET = DefaultTarget
    /\ scoreHistory[MINIMUM_STEPS].scores.mindfulness = One
    /\ scoreHistory[MINIMUM_STEPS].scores.emptiness = Tenths(5)
    /\ scoreHistory[MINIMUM_STEPS].mean = DefaultTarget
    /\ telemetry[MINIMUM_STEPS].terminationReason = "target_reached"
    /\ scoreHistory[1].mean = Tenths(7)
    /\ ~shouldContinue

----------------------------------------------------------------------------
(* C21: each emitted step carries the outcome chosen for its own iteration  *)
(* as routing metadata: nextStep is "continue" exactly when the termination *)
(* decision of that step was to continue and "finalAnswer" exactly when it  *)
(* was to stop.                                                             *)
C21_RoutingMetadata ==
    \A k \in 1 .. Len(allSteps) :
        /\ dataStream[k].content.nextStep \in {"continue", "finalAnswer"}
        /\ dataStream[k].content.nextStep = "continue" <=> telemetry[k].shouldContinue
        /\ dataStream[k].content.nextStep = "finalAnswer" <=> RulesStop(k)
        /\ (k = Len(allSteps) /\ pc = "loop" /\ ~Aborted) =>
               (dataStream[k].content.nextStep = "continue" <=> shouldContinue)

\* four emitted steps: three to be continued, the fourth final on its score
C21_Witness ==
    /\ Len(dataStream) = MINIMUM_STEPS
    /\ \A k \in 1 .. (MINIMUM_STEPS - 1) : dataStream[k].content.nextStep = "continue"
    /\ dataStream[MINIMUM_STEPS].content.nextStep = "finalAnswer"
    /\ telemetry[MINIMUM_STEPS].terminationReason = "target_reached"

----------------------------------------------------------------------------
(* C22: the feedback call of step N changes neither the scores or the       *)
(* aggregate recorded for step N, nor any score-history entry, nor the      *)
(* termination decision for step N, which depends only on stepIndex,        *)
(* maxSteps, target and the aggregate of step N; the feedback reaches the   *)
(* session through the stored text that the next context carries.           *)
C22_FeedbackFrame ==
    [][pc = "feedback" =>
         LET N == iterationState.stepIndex
             aggregate == scoreHistory[N].mean
             stop == \/ N >= DHARMA_MAX_STEPS
                     \/ N >= MINIMUM_STEPS /\ aggregate >= DHARMA_TARGET
         IN  /\ scoreHistory' = scoreHistory
             /\ contextMessages' = contextMessages
             /\ iterationState'.stepIndex = N
             /\ Len(allSteps') = N
             /\ SubSeq(allSteps', 1, N - 1) = allSteps
             /\ allSteps'[N].dharma = pending[1].validatedStep.dharma
             /\ allSteps'[N].dharma.mindfulness = scoreHistory[N].scores.mindfulness
             /\ allSteps'[N].dharma.emptiness = scoreHistory[N].scores.emptiness
             /\ allSteps'[N].dharma.nonDuality = scoreHistory[N].scores.nonDuality
             /\ allSteps'[N].dharma.boundlessCare = scoreHistory[N].scores.boundlessCare
             /\ allSteps'[N].dharmaScore = toFixed(aggregate, 3)
             /\ shouldContinue' = ~stop
             /\ telemetry'[N].shouldContinue = ~stop
             /\ telemetry'[N].targetReached = (aggregate >= DHARMA_TARGET)
             /\ allSteps'[N].nextStep = IF stop THEN "finalAnswer" ELSE "continue"
             /\ iterationState'.previousFeedback = allSteps'[N].serverFeedback]_vars

\* step 4 of 5 stopped on its aggregate although the feedback service
\* answered with advice, after a step whose feedback call failed
C22_Witness ==
    /\ Len(allSteps) = MINIMUM_STEPS
    /\ DHARMA_MAX_STEPS = MINIMUM_STEPS + 1
    /\ allSteps[MINIMUM_STEPS].nextStep = "finalAnswer"
    /\ allSteps[MINIMUM_STEPS].serverFeedback = "Hold conclusions more provisionally."
    /\ \E f \in FeedbackCalls : calls[f].status = "rejected"

----------------------------------------------------------------------------
(* The score history over time *)
C23_Inv ==
    /\ \A j \in 1 .. Len(scoreHistory) : scoreHistory[j].step = j
    /\ Len(scoreHistory) = Len(allSteps) + (IF pc = "feedback" THEN 1 ELSE 0)
    /\ \A j \in 1 .. Len(allSteps) :
           /\ allSteps[j].stepIndex = scoreHistory[j].step
           /\ allSteps[j].content = scoreHistory[j].content
    \* a failed step leaves no entry
    /\ Aborted => /\ Len(scoreHistory) = iterationState.stepIndex - 1
                  /\ \A j \in 1 .. Len(scoreHistory) :
                         scoreHistory[j].step # iterationState.stepIndex

\* an entry once appended stays where it is, as it is
C23_OnlyAppends ==
    [][\/ scoreHistory' = scoreHistory
       \/ /\ Len(scoreHistory') = Len(scoreHistory) + 1
          /\ SubSeq(scoreHistory', 1, Len(scoreHistory)) = scoreHistory]_vars

(* C23: the score history is append-only with one entry per completed step: *)
(* the step indices of its entries are 1, 2, ..., n in that order, an entry *)
(* once appended is never changed, removed or reordered, and a step that    *)
(* failed fatally contributes no entry.                                     *)
C23_AppendOnlyHistory == []C23_Inv /\ C23_OnlyAppends

\* three entries for three completed steps, the fourth step failed
C23_Witness ==
    /\ Aborted
    /\ iterationState.stepIndex = MINIMUM_STEPS
    /\ Len(scoreHistory) = MINIMUM_STEPS - 1
    /\ pc = "done"

----------------------------------------------------------------------------
(* The telemetry of a session *)

\* no iteration is in progress: the loop is at its head or has been left
BetweenIterations == pc \in {"loop", "synthesis", "done"}

\* the reason the priority chain gives recorded step k
ChainReason(k) ==
    IF k >= DHARMA_MAX_STEPS THEN "max_steps_reached"
    ELSE IF k < MINIMUM_STEPS THEN "minimum_steps_required"
    ELSE IF scoreHistory[k].mean >= DHARMA_TARGET THEN "target_reached"
    ELSE "continuing"

\* record k is the record of iteration k
TelemetryOf(k) ==
    /\ telemetry[k].event = "reasoning_step"
    /\ telemetry[k].stepIndex = k
    /\ telemetry[k].modelSelfScore = toFixed(scoreHistory[k].mean, 3)
    /\ telemetry[k].terminationReason = ChainReason(k)
    /\ telemetry[k].targetReached <=> (scoreHistory[k].mean >= DHARMA_TARGET)

(* C25 as stated: exactly one telemetry record is emitted per loop          *)
(* iteration, carrying that iteration's step index, aggregate, termination  *)
(* reason and targetReached flag (true exactly when the aggregate is >=     *)
(* target).                                                                 *)
C25_Original ==
    BetweenIterations =>
        /\ Len(telemetry) = iterationState.stepIndex
        /\ \A k \in 1 .. Len(telemetry) : TelemetryOf(k)

C25_Inv ==
    /\ BetweenIterations =>
           Len(telemetry) = iterationState.stepIndex - (IF Aborted THEN 1 ELSE 0)
    /\ Len(telemetry) = Len(allSteps)
    /\ \A k \in 1 .. Len(telemetry) : TelemetryOf(k)
    /\ Aborted =>
           /\ Len(errors) >= 1
           /\ errors[1].stepIndex = iterationState.stepIndex
           /\ \A k \in 1 .. Len(telemetry) :
                  telemetry[k].stepIndex # iterationState.stepIndex

\* the records are written one at a time and never taken back
C25_OneAtATime ==
    [][\/ telemetry' = telemetry
       \/ /\ Len(telemetry') = Len(telemetry) + 1
          /\ SubSeq(telemetry', 1, Len(telemetry)) = telemetry
          /\ pc = "feedback"]_vars

(* C25, amended: exactly one telemetry record is emitted per completed loop *)
(* iteration, carrying that iteration's step index, aggregate, termination  *)
(* reason and targetReached flag (true exactly when the aggregate is >=     *)
(* target); an iteration aborted by an error emits no telemetry record,     *)
(* only an error log.                                                       *)
C25_TelemetryPerCompletedStep == []C25_Inv /\ C25_OneAtATime

\* five iterations, four records: the fifth iteration failed
C25_Witness ==
    /\ pc = "done"
    /\ Aborted
    /\ iterationState.stepIndex = MINIMUM_STEPS + 1
    /\ Len(telemetry) = MINIMUM_STEPS
    /\ telemetry[MINIMUM_STEPS].terminationReason = "continuing"

----------------------------------------------------------------------------
(* C26: the feedback note is injected into the context of step N exactly    *)
(* when N > 1 and the stored previous feedback is a non-empty string; the   *)
(* request of step 1 never holds a note, and a note injected for step N is  *)
(* attributed to step N-1 and placed before the "generate step N"           *)
(* instruction.                                                             *)
C26_NoteInjection ==
    [][(pc = "loop" /\ pc' = "genStep") =>
         LET N == iterationState'.stepIndex
             stored == iterationState.previousFeedback
             request == calls'[Len(calls')].request
             last == request[Len(request)]
         IN  /\ calls'[Len(calls')].kind = "step"
             /\ calls'[Len(calls')].stepIndex = N
             /\ SubSeq(request, 1, Len(messages)) = messages
             /\ last.role = "user"
             /\ last.content
                    = "Generate reasoning step " \o ToString(N) \o " of "
                        \o ToString(DHARMA_MAX_STEPS) \o ". "
                        \o (IF stored = "" THEN ""
                            ELSE "Incorporate the server feedback from your previous step.")
             /\ IF N > 1 /\ stored # ""
                THEN /\ Len(request) = Len(messages) + 2
                     /\ request[Len(request) - 1] = FeedbackNote(N - 1, stored)
                ELSE /\ Len(request) = Len(messages) + 1
                     /\ \A m \in 1 .. Len(request) : request[m].role # "assistant"
             /\ N = 1 => (stored = "" /\ Len(request) = Len(messages) + 1)]_vars

\* the request of step 2 held a note, the one of step 3 holds none: the
\* feedback of step 2 was white space only
C26_Witness ==
    /\ Len(calls) = 5
    /\ calls[5].kind = "step" /\ calls[5].stepIndex = 3
    /\ Len(calls[1].request) = Len(messages) + 1
    /\ Len(calls[3].request) = Len(messages) + 2
    /\ calls[3].request[Len(messages) + 1] = FeedbackNote(1, allSteps[1].serverFeedback)
    /\ Len(calls[5].request) = Len(messages) + 1
    /\ allSteps[2].serverFeedback = ""

----------------------------------------------------------------------------
\* the reason logged for step k follows from the aggregate being at or over
\* the target the way the statement describes, given the extra condition
\* floorCase(k) on its last clause
ReasonClauses(k, floorCase) ==
    LET reached == scoreHistory[k].mean >= DHARMA_TARGET
        reason == telemetry[k].terminationReason
    IN  /\ reason = "target_reached" =>
               /\ MINIMUM_STEPS <= k
               /\ k < DHARMA_MAX_STEPS
               /\ reached
        /\ (k = DHARMA_MAX_STEPS /\ reached) => reason = "max_steps_reached"
        /\ (k < MINIMUM_STEPS /\ reached /\ floorCase) =>
               /\ reason = "minimum_steps_required"
               /\ telemetry[k].targetReached

(* C27 as stated: a step is given reason target_reached only if             *)
(* 4 <= stepIndex < maxSteps and its aggregate is >= target; a step with    *)
(* stepIndex = maxSteps whose aggregate is >= target is reported as         *)
(* max_steps_reached, and a step with stepIndex < 4 whose aggregate is      *)
(* >= target is reported as minimum_steps_required with targetReached.      *)
C27_Original ==
    \A k \in 1 .. Len(telemetry) : ReasonClauses(k, TRUE)

(* C27, amended: as stated, the last clause for a step with stepIndex < 4   *)
(* and stepIndex < maxSteps: the ceiling is tested before the floor, so a   *)
(* step at the ceiling is max_steps_reached also below the floor.           *)
C27_ReasonPriority ==
    \A k \in 1 .. Len(telemetry) :
        /\ ReasonClauses(k, k < DHARMA_MAX_STEPS)
        /\ (k < MINIMUM_STEPS /\ k >= DHARMA_MAX_STEPS) =>
               telemetry[k].terminationReason = "max_steps_reached"

\* step 1 is over the target below the floor and step 4 stops on the target
C27_Witness ==
    /\ Len(telemetry) = MINIMUM_STEPS
    /\ DHARMA_MAX_STEPS > MINIMUM_STEPS
    /\ scoreHistory[1].mean >= DHARMA_TARGET
    /\ telemetry[1].terminationReason = "minimum_steps_required"
    /\ telemetry[1].targetReached
    /\ telemetry[MINIMUM_STEPS].terminationReason = "target_reached"

----------------------------------------------------------------------------
\* the routing field of emitted step k
NextStepOf(k) == dataStream[k].content.nextStep

\* a step marked final is the last one emitted, all before it are to be
\* continued
C28_FinalIsLast ==
    \A k \in 1 .. Len(allSteps) :
        NextStepOf(k) = "finalAnswer" =>
            /\ k = Len(allSteps)
            /\ \A j \in 1 .. (k - 1) : NextStepOf(j) = "continue"

\* once the loop is left: a session without failure ends on a final step, an
\* aborted one has none
C28_AtExit ==
    LoopOver =>
        /\ (~Aborted /\ Len(allSteps) >= 1) =>
               /\ NextStepOf(Len(allSteps)) = "finalAnswer"
               /\ \A j \in 1 .. (Len(allSteps) - 1) : NextStepOf(j) = "continue"
        /\ Aborted =>
               \A j \in 1 .. Len(allSteps) : NextStepOf(j) = "continue"

(* C28: in a session where no iteration fails and at least one step is      *)
(* generated, exactly the last emitted step has nextStep = finalAnswer and  *)
(* every earlier one has continue; in a session whose loop was aborted by   *)
(* a per-step error, no emitted step has nextStep = finalAnswer.            *)
C28_FinalAnswerMarksEnd ==
    /\ C28_FinalIsLast
    /\ C28_AtExit
    /\ Aborted => \A j \in 1 .. Len(allSteps) : NextStepOf(j) # "finalAnswer"

\* a finished session of several steps without failure
C28_Witness ==
    /\ pc = "done"
    /\ ~Aborted
    /\ Len(allSteps) > MINIMUM_STEPS
    /\ NextStepOf(Len(allSteps)) = "finalAnswer"
    /\ NextStepOf(1) = "continue"

----------------------------------------------------------------------------
\* the step count the synthesis prompt reports, route.ts:250
ReportedSteps(c) == calls[c].request.completed

(* C29: when the loop exits, the stepIndex counter (the step count reported *)
(* in the synthesis prompt and the completion log) equals the number of     *)
(* recorded steps if no iteration failed, and exceeds it by exactly one if  *)
(* the loop was aborted by a per-step error.                                *)
C29_CounterAtExit ==
    LoopOver =>
        /\ ~Aborted => iterationState.stepIndex = Len(allSteps)
        /\ Aborted => iterationState.stepIndex = Len(allSteps) + 1
        /\ \A c \in SynthesisCalls :
               /\ ReportedSteps(c) = iterationState.stepIndex
               /\ ReportedSteps(c) - Len(calls[c].request.transcript)
                      = (IF Aborted THEN 1 ELSE 0)

\* the third iteration failed: two steps recorded, three reported
C29_Witness ==
    /\ pc = "done"
    /\ Aborted
    /\ Len(allSteps) = 2
    /\ \E c \in SynthesisCalls : ReportedSteps(c) = 3

----------------------------------------------------------------------------
\* the reasoning-step events written so far
StepEvents == {e \in 1 .. Len(dataStream) : dataStream[e].type = "reasoning-step"}

\* an iteration is about to start
C30_AtIterationStart ==
    (pc = "loop" /\ LoopGuard) =>
        /\ Len(scoreHistory) = iterationState.stepIndex
        /\ Len(allSteps) = iterationState.stepIndex
        /\ Cardinality(StepEvents) = iterationState.stepIndex

C30_Ceiling ==
    DHARMA_MAX_STEPS >= 0 => iterationState.stepIndex <= DHARMA_MAX_STEPS

\* the counter moves when an iteration starts, by one, and at no other time
C30_CountsIterations ==
    IF pc = "loop" /\ pc' = "genStep"
    THEN iterationState'.stepIndex = iterationState.stepIndex + 1
    ELSE iterationState'.stepIndex = iterationState.stepIndex

(* C30: at the start of every loop iteration the number of score-history    *)
(* entries, the number of recorded steps and the number of emitted          *)
(* reasoning-step events all equal stepIndex; stepIndex starts at 0,        *)
(* increases by exactly 1 per iteration, and never exceeds maxSteps when    *)
(* maxSteps >= 0.                                                           *)
C30_LoopInvariant ==
    /\ iterationState.stepIndex = 0
    /\ [](C30_AtIterationStart /\ C30_Ceiling)
    /\ [][C30_CountsIterations]_vars

\* the last iteration the ceiling admits is about to start
C30_Witness ==
    /\ pc = "loop"
    /\ LoopGuard
    /\ DHARMA_MAX_STEPS = MINIMUM_STEPS + 1
    /\ iterationState.stepIndex = MINIMUM_STEPS
    /\ Cardinality(StepEvents) = MINIMUM_STEPS

----------------------------------------------------------------------------
\* A request served alone, told as a function of the answers of the services
\* (the status and result of each call, in the order of the calls): what one
\* answer does to the request's state.  current holds the step between its
\* validation and the end of its iteration.
SoloStart ==
    [stepIndex |-> 0, allSteps |-> <<>>, scoreHistory |-> <<>>,
     previousFeedback |-> "", dataStream |-> <<>>,
     shouldContinue |-> TRUE, pc |-> "loop", current |-> <<>>]

SoloStepAnswer(call, st) ==
    LET n == st.stepIndex + 1
        started == [st EXCEPT !.stepIndex = n, !.pc = "genStep"]
        failed == [started EXCEPT !.shouldContinue = FALSE, !.pc = "loop"]
    IN  IF call.status = "pending" THEN started
        ELSE IF call.status = "rejected" THEN failed
        ELSE LET stepData == ParseStepData(call.result, n)
             IN  IF ~singleStepSchemaOk(stepData) THEN failed
                 ELSE LET validatedStep == ValidatedStep(stepData)
                          modelDharmaScore == mean(validatedStep.dharma)
                      IN  [started EXCEPT
                             !.scoreHistory =
                                 Append(@, [step |-> n,
                                            scores |->
                                                [mindfulness |-> validatedStep.dharma.mindfulness,
                                                 emptiness |-> validatedStep.dharma.emptiness,
                                                 nonDuality |-> validatedStep.dharma.nonDuality,
                                                 boundlessCare |-> validatedStep.dharma.boundlessCare],
                                            mean |-> modelDharmaScore,
                                            content |-> validatedStep.content]),
                             !.current = <<[validatedStep |-> validatedStep,
                                            modelDharmaScore |-> modelDharmaScore]>>,
                             !.pc = "feedback"]

SoloFeedbackAnswer(call, st) ==
    IF call.status = "pending" THEN st
    ELSE LET validatedStep == st.current[1].validatedStep
             modelDharmaScore == st.current[1].modelDharmaScore
             llmFeedback == IF call.status = "resolved" THEN trim(call.result)
                            ELSE DharmaFeedbackFallback(validatedStep.dharma,
                                                        SliceButLast(st.scoreHistory),
                                                        DHARMA_TARGET)
             decision == TerminationDecision(st.stepIndex, modelDharmaScore)
             enrichedStep == EnrichedStep(validatedStep, modelDharmaScore, st.stepIndex,
                                          decision.shouldContinue, llmFeedback)
         IN  [st EXCEPT
                !.allSteps = Append(@, enrichedStep),
                !.previousFeedback = StoreFeedback(llmFeedback),
                !.dataStream = Append(@, [type |-> "reasoning-step",
                                          content |-> enrichedStep]),
                !.shouldContinue = decision.shouldContinue,
                !.current = <<>>,
                !.pc = "loop"]

SoloSynthesisAnswer(call, st) ==
    IF call.status = "pending" THEN [st EXCEPT !.pc = "synthesis"]
    ELSE [st EXCEPT
            !.dataStream =
                Append(@, [type |-> "text",
                           content |-> IF call.status = "resolved" THEN call.result
                                       ELSE "Error generating final synthesis. Please review the reasoning steps above."]),
            !.pc = "done"]

RECURSIVE SoloRun(_, _, _)
SoloRun(log, k, st) ==
    IF k > Len(log) THEN st
    ELSE SoloRun(log, k + 1,
                 IF log[k].kind = "step" THEN SoloStepAnswer(log[k], st)
                 ELSE IF log[k].kind = "feedback" THEN SoloFeedbackAnswer(log[k], st)
                 ELSE SoloSynthesisAnswer(log[k], st))

\* the request with state s is where it would be had it run alone and been
\* given the answers it was given
SameAsAlone(s) ==
    LET alone == SoloRun(s.calls, 1, SoloStart)
    IN  /\ s.iterationState.stepIndex = alone.stepIndex
        /\ s.iterationState.allSteps = alone.allSteps
        /\ s.scoreHistory = alone.scoreHistory
        /\ s.iterationState.previousFeedback = alone.previousFeedback
        /\ s.dataStream = alone.dataStream
        /\ s.shouldContinue = alone.shouldContinue
        /\ s.pc = alone.pc

(* C24: two sessions running concurrently with arbitrarily interleaved      *)
(* external-call completions do not affect each other: each session's       *)
(* stepIndex, recorded steps, score history, previousFeedback and emitted   *)
(* event sequence are the same as if that session ran alone with the same   *)
(* service responses.                                                       *)
C24_SessionsIsolated ==
    /\ SameAsAlone(Session)
    /\ SameAsAlone(peer)

\* both requests are in their second iteration, one waiting for its step and
\* one for its feedback, after first steps that differ
C24_Witness ==
    /\ pc = "genStep"
    /\ iterationState.stepIndex = 2
    /\ peer.pc = "feedback"
    /\ peer.iterationState.stepIndex = 2
    /\ allSteps[1].dharmaScore # peer.iterationState.allSteps[1].dharmaScore
    /\ Len(peer.scoreHistory) = 2
    /\ Len(scoreHistory) = 1

----------------------------------------------------------------------------
\* the calls of a session whose loop is over, counted against its record
C31_Counts ==
    LoopOver =>
        /\ Cardinality(FeedbackCalls) = Len(allSteps)
        /\ Cardinality(StepCalls) = Len(allSteps) + (IF Aborted THEN 1 ELSE 0)
        /\ Cardinality(SynthesisCalls) = 1
        /\ \A c \in SynthesisCalls :
               \A k \in StepCalls \cup FeedbackCalls :
                   k < c /\ calls[k].status # "pending"

\* while the loop runs no synthesis is asked for, and every step in hand has
\* had its step call and, once recorded, its feedback call
C31_Running ==
    ~LoopOver =>
        /\ SynthesisCalls = {}
        /\ Cardinality(StepCalls) = iterationState.stepIndex
        /\ Cardinality(FeedbackCalls) = Len(scoreHistory)

\* once the synthesis is asked for no further call is made
C31_SynthesisIsLast == LoopOver => Len(calls') = Len(calls)

(* C31: in every session the number of feedback-generator calls equals the  *)
(* number of recorded steps, the number of step-generation calls equals the *)
(* number of recorded steps plus one if the loop was aborted by a per-step  *)
(* error and equals it otherwise, and exactly one synthesis call is made,   *)
(* after all step and feedback calls.                                       *)
C31_CallCounts ==
    /\ [](C31_Counts /\ C31_Running)
    /\ [][C31_SynthesisIsLast]_vars

\* a finished session of three recorded steps whose fourth step failed
C31_Witness ==
    /\ pc = "done"
    /\ Aborted
    /\ Len(allSteps) = 3
    /\ Cardinality(StepCalls) = 4
    /\ Cardinality(FeedbackCalls) = 3
    /\ \E f \in FeedbackCalls : calls[f].status = "rejected"

----------------------------------------------------------------------------
\* the reasoning-step events in the order they were written
EmittedSteps == SelectSeq(dataStream, LAMBDA ev : ev.type = "reasoning-step")

(* C32: the emitted reasoning-step events carry stepIndex values 1, 2, ..., *)
(* k with no gap and no repetition, in that order, and all carry the same   *)
(* maxSteps value, equal to the configured maximum.                         *)
C32_EventNumbering ==
    \A i \in 1 .. Len(EmittedSteps) :
        /\ EmittedSteps[i].content.stepIndex = i
        /\ EmittedSteps[i].content.maxSteps = DHARMA_MAX_STEPS

\* a stream of as many steps as the largest ceiling allows, then the text
C32_Witness ==
    /\ pc = "done"
    /\ DHARMA_MAX_STEPS = MaxMaxSteps
    /\ Len(EmittedSteps) = MaxMaxSteps
    /\ Len(dataStream) = MaxMaxSteps + 1
    /\ EmittedSteps[MaxMaxSteps].content.stepIndex = MaxMaxSteps

----------------------------------------------------------------------------
\* every recorded sub-score lies in [0,1]
ScoresInRange ==
    \A k \in 1 .. Len(scoreHistory) :
        /\ scoreHistory[k].scores.mindfulness \in 0 .. One
        /\ scoreHistory[k].scores.emptiness \in 0 .. One
        /\ scoreHistory[k].scores.nonDuality \in 0 .. One
        /\ scoreHistory[k].scores.boundlessCare \in 0 .. One

\* the early exit: a step stopped on its score
EarlyExitAt(k) == telemetry[k].terminationReason = "target_reached"

\* target <= 0: the first step past the floor and under the ceiling stops
\* the loop, and a finished session without failure has min(4, maxSteps) steps
AlwaysEarlyExit ==
    (DHARMA_TARGET <= 0 /\ DHARMA_MAX_STEPS >= 1) =>
        /\ \A k \in 1 .. Len(telemetry) :
               (k >= MINIMUM_STEPS /\ k < DHARMA_MAX_STEPS) =>
                   (k = MINIMUM_STEPS /\ EarlyExitAt(k))
        /\ (LoopOver /\ ~Aborted) =>
               Len(allSteps) = Min2(MINIMUM_STEPS, DHARMA_MAX_STEPS)

\* target > 1: no step stops on its score, and a finished session without
\* failure has the given number of steps
NeverEarlyExit(steps) ==
    DHARMA_TARGET > One =>
        /\ \A k \in 1 .. Len(telemetry) : ~EarlyExitAt(k)
        /\ (LoopOver /\ ~Aborted) => Len(allSteps) = steps

(* C33 as stated: with sub-scores constrained to [0,1] and no failing       *)
(* iteration, if target > 1 the quality-based early exit never fires and    *)
(* exactly maxSteps steps are generated; if target <= 0 the early exit      *)
(* fires at the first eligible step and exactly min(4, maxSteps) steps are  *)
(* generated (for maxSteps >= 1).                                           *)
C33_Original ==
    ScoresInRange => (NeverEarlyExit(DHARMA_MAX_STEPS) /\ AlwaysEarlyExit)

(* C33, amended: as stated, with exactly max(maxSteps, 0) steps generated   *)
(* if target > 1: a negative maxSteps gives no step at all.                 *)
C33_DegenerateTargets ==
    /\ ScoresInRange
    /\ NeverEarlyExit(Max2(DHARMA_MAX_STEPS, 0))
    /\ AlwaysEarlyExit

\* a finished session under target 0 whose steps all scored 0: four steps,
\* the fourth stopped on its score, with a higher ceiling
C33_Witness ==
    /\ pc = "done"
    /\ ~Aborted
    /\ DHARMA_TARGET = 0
    /\ DHARMA_MAX_STEPS > MINIMUM_STEPS
    /\ Len(allSteps) = MINIMUM_STEPS
    /\ \A k \in 1 .. MINIMUM_STEPS : scoreHistory[k].mean = 0
    /\ EarlyExitAt(MINIMUM_STEPS)

----------------------------------------------------------------------------
\* the iteration of step 1 ended in the per-step catch
FirstStepFailed ==
    \E k \in 1 .. Len(errors) : errors[k].where = "step" /\ errors[k].stepIndex = 1

(* C34: if maxSteps <= 0, or the first step-generation call fails fatally,  *)
(* no reasoning-step event is emitted, no feedback call is made, and the    *)
(* synthesis call is still issued with an empty transcript, so that the     *)
(* stream consists of the single text event.                                *)
C34_NoStepSession ==
    (DHARMA_MAX_STEPS <= 0 \/ FirstStepFailed) =>
        /\ EmittedSteps = <<>>
        /\ FeedbackCalls = {}
        /\ pc = "loop" =>
               /\ ~LoopGuard
               /\ ENABLED LoopExit
        /\ LoopOver =>
               /\ Cardinality(SynthesisCalls) = 1
               /\ \A c \in SynthesisCalls : calls[c].request.transcript = <<>>
        /\ pc = "synthesis" => dataStream = <<>>
        /\ pc = "done" =>
               /\ Len(dataStream) = 1
               /\ dataStream[1].type = "text"

\* the first step call was rejected, the synthesis answered
C34_Witness ==
    /\ pc = "done"
    /\ DHARMA_MAX_STEPS >= 1
    /\ FirstStepFailed
    /\ calls[1].kind = "step" /\ calls[1].status = "rejected"
    /\ Len(calls) = 2
    /\ calls[2].kind = "synthesis" /\ calls[2].status = "resolved"
    /\ Len(dataStream) = 1

----------------------------------------------------------------------------
AllAlignedMessage ==
    "Strong alignment across all principles. Maintain this contemplative depth."

\* the canned sentences of the dimensions in S, in the fixed order
SentencesOf(S) ==
    LET picked == SelectSeq(<<1, 2, 3, 4>>, LAMBDA d : d \in S)
    IN  [i \in 1 .. Len(picked) |-> CannedSentence[picked[i]]]

\* the texts that name at least one dimension
NamingTexts == {JoinSpace(SentencesOf(S)) : S \in (SUBSET (1 .. 4)) \ {{}}}

(* C35: whenever the fallback feedback for a step is the fixed all-aligned  *)
(* message (no dimension strictly below target), that step's aggregate is   *)
(* >= target; conversely, whenever a step's aggregate is < target, the      *)
(* fallback feedback names at least one dimension.                          *)
C35_FallbackAgreesWithAggregate ==
    \A f \in FailedFeedbackCalls :
        LET aggregate == scoreHistory[calls[f].stepIndex].mean
        IN  /\ Returned(f) \in NamingTexts \cup {AllAlignedMessage}
            /\ Returned(f) = AllAlignedMessage => aggregate >= DHARMA_TARGET
            /\ aggregate < DHARMA_TARGET => Returned(f) \in NamingTexts

\* target 0.5: step 1 scored 0.9, 0.5, 0.9, 0.5 and drew the all-aligned
\* message, step 2 scored 0 throughout and drew all four sentences
C35_Witness ==
    /\ DHARMA_TARGET = Tenths(5)
    /\ Len(allSteps) = 2
    /\ \E f, g \in FailedFeedbackCalls :
           /\ calls[f].stepIndex = 1
           /\ SubScores(f) = <<Tenths(9), Tenths(5), Tenths(9), Tenths(5)>>
           /\ Returned(f) = AllAlignedMessage
           /\ scoreHistory[1].mean = Tenths(7)
           /\ calls[g].stepIndex = 2
           /\ scoreHistory[2].mean = 0
           /\ Returned(g) = JoinSpace(CannedSentence)

====
